---- MODULE Spec2Model ----
(***************************************************************************)
(* Verification model of dx_service: the settlement engine                 *)
(* (internal/service/game/settle.go), the table runtime                    *)
(* (internal/service/game/runtime.go) and the matchmaker                   *)
(* (internal/service/match).  Each subsystem has its own specification     *)
(* (SpecSettle, SpecTable, SpecMatch) over its own variables.              *)
(***************************************************************************)
EXTENDS Integers, Sequences, FiniteSets, TLC

VARIABLES
    \* ---- durable store as seen by the settlement engine
    wallets,        \* userId -> wallet row (model.Wallet)
    matches,        \* matchId -> match row (model.Match)
    matchLock,      \* matchId -> settle call holding SELECT ... FOR UPDATE, 0 if none
    billingLogs,    \* sequence of model.BillingLog rows
    agentLogs,      \* sequence of model.AgentProfitLog rows
    agentTotals,    \* agentId -> Agent.total_profit
    tableStatus,    \* tableId -> Table.status
    settleCalls,    \* settle call -> [pc, req, ret]
    commits,        \* matchId -> number of SettleMatch transactions that committed
    rakeRule,       \* the RakeRule row of the scene
    agentRule,      \* the newest AgentRule row
    \* ---- one table runtime (game.TableRuntime) and its websocket clients
    rt,             \* the fields of the TableRuntime struct
    chans,          \* connection -> the channel Subscribe made for it
    tableRow,       \* the Table row of the runtime and what handleRuntimeFinish did with it
    probes,         \* number of steps taken so far that can be repeated without end: rejoin,
                    \* ping and knock_bobo commands, messages taken by a write pump
    \* ---- a function of the program applied to an input
    caseIn,         \* the input
    caseOut,        \* what the function returned for it, <<>> before it is applied
    \* ---- the matchmaker of one scene (match.Service): Redis keys, rows, calls in progress
    matchCfg,       \* the scene row, the feature flag and what each user's client reports
    now,            \* the clock, in minutes
    queue,          \* user -> score in the sorted set queue:{scene}, 0 if not a member
    members,        \* user -> the snapshot at queue:member:{scene}:{user}, NoKey if none
    qlock,          \* user -> the time the key queue:lock:{user} expires, 0 if it is not set
    held,           \* user -> the time the matched hold of the last composition ends
    notify,         \* user -> the payload at match:pending:{user}, NoKey if none
    tables,         \* the Table rows createTableAndMatch inserted, with the members seated
    joinCalls,      \* join call -> [pc, req, balance, ret]
    composer,       \* the runMatcher goroutine: [pc, players, idx]
    cancelled,      \* users whose cancel has returned and who have not joined since
    \* ---- the runtime registry of game.Service (GetRuntime)
    runtimes,       \* Service.runtimes: table -> the actor stored for it, 0 if none
    actors,         \* table -> number of actors newTableRuntime has started for it
    getCalls,       \* GetRuntime call -> [pc, table, rt]
    \* ---- the command loop of one table actor and the callers of its entry points
    cmdCh,          \* the commands buffered in rt.cmdCh
    quitCh,         \* TRUE once rt.quitCh is closed
    loopPc,         \* "running" until the goroutine of startLoop returns
    callers         \* caller -> [pc, kind, ret]

settleVars == <<wallets, matches, matchLock, billingLogs, agentLogs, agentTotals,
                tableStatus, settleCalls, commits>>
settleCfg == <<rakeRule, agentRule>>
tableVars == <<rt, chans, tableRow, probes>>

caseVars == <<caseIn, caseOut>>
matchVars == <<matchCfg, now, queue, members, qlock, held, notify, tables, joinCalls,
               composer, cancelled>>
registryVars == <<runtimes, actors, getCalls>>
actorVars == <<cmdCh, quitCh, loopPc, callers>>

vars == <<settleVars, settleCfg, tableVars, caseVars, matchVars, registryVars, actorVars>>

\* what the actions of the settlement engine leave alone
settleFrame == <<settleCfg, tableVars, caseVars, matchVars, registryVars, actorVars>>

\* no table runtime is loaded (the value of the table variables in the specifications
\* of the other subsystems)
TableAbsent ==
    /\ rt = [phase |-> "none"]
    /\ chans = <<>>
    /\ tableRow = <<>>
    /\ probes = 0

\* no function is being applied
CaseAbsent ==
    /\ caseIn = <<>>
    /\ caseOut = <<>>

\* no matchmaker runs
MatchAbsent ==
    /\ matchCfg = <<>>
    /\ now = 0
    /\ queue = <<>>
    /\ members = <<>>
    /\ qlock = <<>>
    /\ held = <<>>
    /\ notify = <<>>
    /\ tables = <<>>
    /\ joinCalls = <<>>
    /\ composer = <<>>
    /\ cancelled = {}

\* no runtime is being looked up
RegistryAbsent ==
    /\ runtimes = <<>>
    /\ actors = <<>>
    /\ getCalls = <<>>

\* no command loop runs
ActorAbsent ==
    /\ cmdCh = <<>>
    /\ quitCh = FALSE
    /\ loopPc = "none"
    /\ callers = <<>>

\* ------------------------------------------------------------------------
\* Generic helpers
\* ------------------------------------------------------------------------
RECURSIVE SumSeq(_)
SumSeq(s) == IF s = <<>> THEN 0 ELSE Head(s) + SumSeq(Tail(s))

RECURSIVE SumOver(_, _)
SumOver(f, S) ==
    IF S = {} THEN 0
    ELSE LET x == CHOOSE y \in S : TRUE IN f[x] + SumOver(f, S \ {x})

\* math.Round(float64(x) * pct/100): round half away from zero
RoundPct(x, pct) ==
    LET n == x * pct
    IN IF n >= 0 THEN (2 * n + 100) \div 200
       ELSE 0 - ((2 * (0 - n) + 100) \div 200)

\* ------------------------------------------------------------------------
\* Settlement engine: data
\* ------------------------------------------------------------------------
NumSettleCalls == 2

Players == {1, 2, 3}
AgentIDs == {4, 5}
WalletIDs == Players \cup AgentIDs
MatchIDs == {1, 2}
SettleProcs == 1 .. NumSettleCalls
\* the scene a match belongs to: scene ids coincide with match ids here
SceneOfMatch(m) == m

ErrNone == "ok"
ErrSettlementValidation == "ErrSettlementValidation"
ErrMatchNotFound == "ErrMatchNotFound"
ErrMatchAlreadySettled == "ErrMatchAlreadySettled"
ErrSceneNotFound == "ErrSceneNotFound"
ErrStore == "store error"

\* RakeRule rows the scene may reference; "none" is scene.RakeRuleID = 0.
\* ratio values are percentages (0.05 = 5).
NoSteps == <<>>
RakeRuleOf(type, ratio, cap, amount, steps, badjson) ==
    [type |-> type, ratio |-> ratio, cap |-> cap, amount |-> amount,
     steps |-> steps, badjson |-> badjson]
LadderStep(min, max, ratio, value) ==
    [min |-> min, max |-> max, ratio |-> ratio, value |-> value]

RakeRules ==
    { RakeRuleOf("none", 0, 0, 0, NoSteps, FALSE),
      RakeRuleOf("ratio", 5, 0, 0, NoSteps, FALSE),
      RakeRuleOf("ratio", 10, 30, 0, NoSteps, FALSE),
      RakeRuleOf("ratio", 150, 0, 0, NoSteps, FALSE),
      RakeRuleOf("ratio", 0 - 10, 0, 0, NoSteps, FALSE),
      RakeRuleOf("fixed", 0, 0, 6, NoSteps, FALSE),
      RakeRuleOf("fixed", 0, 0, 6, NoSteps, TRUE),
      RakeRuleOf("ladder", 0, 0, 0,
                 <<LadderStep(0, 5, 0, 0), LadderStep(0, 100, 10, 0),
                   LadderStep(101, 0, 0, 25)>>, FALSE),
      RakeRuleOf("tiered", 10, 0, 0, NoSteps, FALSE) }

\* AgentRule.LevelRatiosJSON after parseAgentRatios: level -> percentage; "nil" = no rule
AgentRules ==
    { [nil |-> TRUE, ratios |-> <<>>],
      [nil |-> FALSE, ratios |-> <<50, 25>>],
      [nil |-> FALSE, ratios |-> <<60, 60>>],
      [nil |-> FALSE, ratios |-> <<0, 40>>] }

\* users.agent_path tokens (split on ">"): Tok(id) parses to id, Junk is a token
\* strconv.ParseInt rejects; users.bind_agent_id: 0 = NULL
Tok(id) == [ok |-> TRUE, id |-> id]
Junk == [ok |-> FALSE, id |-> 0]
UserRow(path, bind) == [AgentPath |-> path, BindAgentID |-> bind]
UserRows ==
    [u \in WalletIDs |->
        CASE u = 1 -> UserRow(<<Tok(4), Tok(5)>>, 5)
          [] u = 2 -> UserRow(<<>>, 4)
          [] u = 3 -> UserRow(<<Tok(5), Junk, Tok(0), Tok(5), Tok(4)>>, 0)
          [] u = 5 -> UserRow(<<Tok(4)>>, 4)
          [] OTHER -> UserRow(<<>>, 0)]

PlayerResult(u, n) == [UserID |-> u, NetPoints |-> n]
ResultSets ==
    { <<PlayerResult(1, 100), PlayerResult(2, 0 - 100)>>,
      <<PlayerResult(1, 400), PlayerResult(2, 0 - 150), PlayerResult(3, 0 - 250)>>,
      <<PlayerResult(1, 0 - 10), PlayerResult(2, 3), PlayerResult(3, 7)>>,
      <<PlayerResult(1, 0), PlayerResult(2, 0)>>,
      <<PlayerResult(5, 45), PlayerResult(1, 0 - 45)>> }
BadResultSets ==
    { <<>>,
      <<PlayerResult(1, 5), PlayerResult(2, 0 - 4)>>,
      <<PlayerResult(0, 0), PlayerResult(1, 0)>> }

SettlementRequest(m, s, r) == [MatchID |-> m, SceneID |-> s, Results |-> r]
SettleRequests ==
    { SettlementRequest(1, 0, r) : r \in ResultSets }
    \cup { SettlementRequest(1, SceneOfMatch(1), r) : r \in BadResultSets }
    \cup { SettlementRequest(m, SceneOfMatch(m), <<PlayerResult(1, 100), PlayerResult(2, 0 - 100)>>) :
             m \in MatchIDs }
    \cup { SettlementRequest(0, 0, <<PlayerResult(1, 0), PlayerResult(2, 0)>>),
           SettlementRequest(3, 0,<<PlayerResult(1, 0), PlayerResult(2, 0)>>),
           SettlementRequest(1, SceneOfMatch(2), <<PlayerResult(1, 0), PlayerResult(2, 0)>>) }


\* ------------------------------------------------------------------------
\* Settlement engine: pure functions
\* ------------------------------------------------------------------------
clampRake(value, win, cap) ==
    LET v1 == IF value < 0 THEN 0 ELSE value
        v2 == IF cap > 0 /\ v1 > cap THEN cap ELSE v1
    IN IF v2 > win THEN win ELSE v2

RECURSIVE ladderRake(_, _)
ladderRake(steps, win) ==
    IF steps = <<>> THEN 0
    ELSE LET step == Head(steps)
             inRange == (step.min = 0 \/ win >= step.min) /\ (step.max = 0 \/ win <= step.max)
         IN IF ~inRange THEN ladderRake(Tail(steps), win)
            ELSE IF step.ratio > 0 THEN clampRake(RoundPct(win, step.ratio), win, 0)
            ELSE IF step.value > 0 THEN clampRake(step.value, win, 0)
            ELSE ladderRake(Tail(steps), win)

calculateRake(rule, win) ==
    IF rule.type = "none" \/ win <= 0 THEN 0
    ELSE IF rule.badjson THEN 0
    ELSE CASE rule.type = "ratio" -> clampRake(RoundPct(win, rule.ratio), win, rule.cap)
           [] rule.type = "fixed" -> clampRake(rule.amount, win, 0)
           [] rule.type = "ladder" -> ladderRake(rule.steps, win)
           [] OTHER -> 0

RECURSIVE parseAgentPath(_)
parseAgentPath(tokens) ==
    IF tokens = <<>> THEN <<>>
    ELSE IF Head(tokens).ok THEN <<Head(tokens).id>> \o parseAgentPath(Tail(tokens))
    ELSE parseAgentPath(Tail(tokens))

RECURSIVE dedupFrom(_, _)
dedupFrom(ids, seen) ==
    IF ids = <<>> THEN <<>>
    ELSE IF Head(ids) = 0 \/ Head(ids) \in seen THEN dedupFrom(Tail(ids), seen)
    ELSE <<Head(ids)>> \o dedupFrom(Tail(ids), seen \cup {Head(ids)})

deduplicate(ids) == dedupFrom(ids, {})

ReverseSeq(s) == [i \in 1 .. Len(s) |-> s[Len(s) + 1 - i]]

\* a chain that lists the agents in the order of the path, the root first
resolveAgentChainRootFirst(user) ==
    LET path == parseAgentPath(user.AgentPath)
    IN IF Len(path) = 0 /\ user.BindAgentID = 0 THEN <<>>
       ELSE IF Len(path) > 0 THEN deduplicate(SelectSeq(path, LAMBDA id : id # 0))
       ELSE deduplicate(<<user.BindAgentID>>)

resolveAgentChain(user) ==
    LET path == parseAgentPath(user.AgentPath)
    IN IF Len(path) = 0 /\ user.BindAgentID = 0 THEN <<>>
       ELSE IF Len(path) > 0 THEN deduplicate(SelectSeq(ReverseSeq(path), LAMBDA id : id # 0))
       ELSE deduplicate(<<user.BindAgentID>>)

levelRatio(rule, level) ==
    IF level \in DOMAIN rule.ratios THEN rule.ratios[level] ELSE 0

ZeroWallet ==
    [exists |-> FALSE, BalanceAvailable |-> 0, BalanceFrozen |-> 0, BalanceTotal |-> 0,
     TotalWin |-> 0, TotalRake |-> 0, TotalConsume |-> 0]

\* variant of agentShare that does not cap the share to what is left of the rake
agentShareUncapped(rake, ratio, remaining) ==
    LET share == RoundPct(rake, ratio)
    IN IF ratio <= 0 \/ share <= 0 THEN 0 ELSE share

\* one agent of the chain: the share it is credited, given what is left of the rake
agentShare(rake, ratio, remaining) ==
    LET share == RoundPct(rake, ratio)
    IN IF ratio <= 0 \/ share <= 0 THEN 0
       ELSE IF share > remaining THEN remaining
       ELSE share

\* the loop of distributeAgentShare over chain[idx..]; acc carries the wallet book,
\* the rows to append and what is left of the rake
\* (accumulators are bound by a quantifier so that each is evaluated once)
RECURSIVE shareLoop(_, _, _, _, _, _)
shareLoop(chain, idx, rake, rule, winnerID, acc) ==
    IF idx > Len(chain) THEN acc
    ELSE LET agentID == chain[idx]
             share == agentShare(rake, levelRatio(rule, idx), acc.remaining)
             w == acc.book[agentID]
             w2 == [w EXCEPT !.BalanceAvailable = @ + share,
                             !.BalanceTotal = @ + share,
                             !.TotalWin = @ + share]
             acc2 == [acc EXCEPT
                        !.remaining = @ - share,
                        !.total = @ + share,
                        !.book = [@ EXCEPT ![agentID] = w2],
                        !.billing = Append(@, [UserID |-> agentID, Type |-> "agent_share",
                                               Delta |-> share,
                                               BalanceAfter |-> w2.BalanceAvailable]),
                        !.profit = Append(@, [AgentID |-> agentID, FromUserID |-> winnerID,
                                              Level |-> idx, RakeAmount |-> rake,
                                              ProfitAmount |-> share]),
                        !.records = Append(@, [AgentID |-> agentID, Level |-> idx,
                                               Amount |-> share])]
         IN CHOOSE r \in { shareLoop(chain, idx + 1, rake, rule, winnerID, a) :
                             a \in { IF share = 0 THEN acc ELSE acc2 } } : TRUE

distributeAgentShare(book, winnerID, rake, rule) ==
    LET empty == [remaining |-> rake, total |-> 0, book |-> book, billing |-> <<>>,
                  profit |-> <<>>, records |-> <<>>, platformShare |-> 0]
        chain == resolveAgentChain(UserRows[winnerID])
    IN IF rake <= 0 THEN empty
       ELSE IF rule.nil THEN [empty EXCEPT !.platformShare = rake]
       ELSE IF Len(chain) = 0 THEN [empty EXCEPT !.platformShare = rake]
       ELSE CHOOSE out \in
              { [r EXCEPT !.platformShare = IF rake - r.total < 0 THEN 0 ELSE rake - r.total] :
                  r \in { shareLoop(chain, 1, rake, rule, winnerID, e) : e \in {empty} } } : TRUE

\* the loop over req.Results inside the transaction of SettleMatch
RECURSIVE settleLoop(_, _, _, _)
settleWinner(res, rule, arule, acc) ==
    LET wallet == acc.book[res.UserID]
        rake == calculateRake(rule, res.NetPoints)
        netWin == res.NetPoints - rake
        w2 == [wallet EXCEPT !.BalanceAvailable = @ + netWin,
                             !.BalanceTotal = @ + netWin,
                             !.TotalWin = @ + netWin,
                             !.TotalRake = @ + rake]
        book2 == [acc.book EXCEPT ![res.UserID] = w2]
        winRow == [UserID |-> res.UserID, Type |-> "win", Delta |-> netWin,
                   BalanceAfter |-> w2.BalanceAvailable]
        rakeRow == [UserID |-> res.UserID, Type |-> "rake", Delta |-> 0 - rake,
                    BalanceAfter |-> w2.BalanceAvailable]
        rec == [UserID |-> res.UserID, NetPoints |-> netWin, Rake |-> rake]
    IN IF rake > 0
       THEN CHOOSE out \in
              { [acc EXCEPT
                   !.book = d.book,
                   !.totalRake = @ + rake,
                   !.platformIncome = @ + (IF d.platformShare > 0 THEN d.platformShare ELSE 0),
                   !.billing = @ \o <<winRow, rakeRow>> \o d.billing
                                 \o (IF d.platformShare > 0
                                     THEN <<[UserID |-> 0, Type |-> "platform_income",
                                             Delta |-> d.platformShare, BalanceAfter |-> 0]>>
                                     ELSE <<>>),
                   !.profit = @ \o d.profit,
                   !.agents = @ \o d.records,
                   !.touched = @ \cup {res.UserID}
                                 \cup {d.records[i].AgentID : i \in DOMAIN d.records},
                   !.records = Append(@, rec)] :
                  d \in { distributeAgentShare(b, res.UserID, rake, arule) : b \in {book2} } } : TRUE
       ELSE [acc EXCEPT
               !.book = book2,
               !.billing = Append(@, winRow),
               !.touched = @ \cup {res.UserID},
               !.records = Append(@, rec)]

settleLoser(res, acc) ==
    LET wallet == acc.book[res.UserID]
        loss == res.NetPoints
        w2 == [wallet EXCEPT !.BalanceAvailable = @ + loss,
                             !.BalanceTotal = @ + loss,
                             !.TotalConsume = @ + (0 - loss)]
    IN [acc EXCEPT
          !.book = [@ EXCEPT ![res.UserID] = w2],
          !.billing = Append(@, [UserID |-> res.UserID, Type |-> "lose", Delta |-> loss,
                                 BalanceAfter |-> w2.BalanceAvailable]),
          !.touched = @ \cup {res.UserID},
          !.records = Append(@, [UserID |-> res.UserID, NetPoints |-> loss, Rake |-> 0])]

settleLoop(results, rule, arule, acc) ==
    IF results = <<>> THEN acc
    ELSE CHOOSE out \in
           { settleLoop(Tail(results), rule, arule, a) :
               a \in { IF Head(results).NetPoints > 0
                       THEN settleWinner(Head(results), rule, arule, acc)
                       ELSE settleLoser(Head(results), acc) } } : TRUE

\* walletBook.SaveAll: every entry Ensure touched is saved (created if the row was missing)
SaveAll(book, touched) ==
    [u \in WalletIDs |-> IF u \in touched THEN [book[u] EXCEPT !.exists = TRUE] ELSE book[u]]

\* validation of SettleMatch before the transaction is opened
validateRequest(req) ==
    IF req.MatchID = 0 \/ Len(req.Results) = 0 THEN ErrSettlementValidation
    ELSE IF \E i \in DOMAIN req.Results : req.Results[i].UserID = 0 THEN ErrSettlementValidation
    ELSE IF SumSeq([i \in DOMAIN req.Results |-> req.Results[i].NetPoints]) # 0
         THEN ErrSettlementValidation
    ELSE ErrNone

\* SELECT ... FOR UPDATE on the match row: granted when no other transaction holds it
MatchRowFree(m) == IF m \in MatchIDs THEN matchLock[m] = 0 ELSE TRUE

\* variant of settleGate that does not look at EndedAt
settleGateIgnoringEndedAt(req) ==
    IF req.MatchID \notin MatchIDs THEN ErrMatchNotFound
    ELSE IF req.SceneID # 0 /\ matches[req.MatchID].SceneID # req.SceneID THEN ErrSceneNotFound
    ELSE ErrNone

\* the idempotence gate of SettleMatch, evaluated on the locked row
settleGate(req) ==
    IF req.MatchID \notin MatchIDs THEN ErrMatchNotFound
    ELSE IF matches[req.MatchID].EndedAt # 0 THEN ErrMatchAlreadySettled
    ELSE IF req.SceneID # 0 /\ matches[req.MatchID].SceneID # req.SceneID THEN ErrSceneNotFound
    ELSE ErrNone

\* ------------------------------------------------------------------------
\* Settlement engine: actions
\* ------------------------------------------------------------------------
\* what the wallets hold when the settlements begin: user 3 has spent most of the balance
\* the buy-in was checked against (JoinQueue reads the balance, nothing freezes it)
OpeningBalance(u) == IF u = 3 THEN 200 ELSE 1000

InitSettle ==
    /\ wallets = [u \in WalletIDs |->
                    IF u \in Players
                    THEN [ZeroWallet EXCEPT !.exists = TRUE,
                                            !.BalanceAvailable = OpeningBalance(u),
                                            !.BalanceTotal = OpeningBalance(u)]
                    ELSE ZeroWallet]
    /\ matches = [m \in MatchIDs |->
                    [TableID |-> m, SceneID |-> SceneOfMatch(m), EndedAt |-> 0,
                     ResultJSON |-> <<>>,
                     RakeJSON |-> [Total |-> 0, Platform |-> 0, Agents |-> <<>>]]]
    /\ matchLock = [m \in MatchIDs |-> 0]
    /\ billingLogs = <<>>
    /\ agentLogs = <<>>
    /\ agentTotals = [a \in WalletIDs |-> 0]
    /\ tableStatus = [m \in MatchIDs |-> "playing"]
    /\ settleCalls = [p \in SettleProcs |-> [pc |-> "idle", req |-> SettlementRequest(0, 0, <<>>),
                                             ret |-> ErrNone]]
    /\ commits = [m \in MatchIDs |-> 0]
    /\ rakeRule \in RakeRules
    /\ agentRule \in AgentRules
    /\ TableAbsent
    /\ CaseAbsent
    /\ MatchAbsent
    /\ RegistryAbsent
    /\ ActorAbsent

\* SettleMatch is entered: request validation (settle.go 52-65)
SettleCall(p, req) ==
    /\ settleCalls[p].pc = "idle"
    /\ LET err == validateRequest(req)
       IN settleCalls' = [settleCalls EXCEPT ![p] =
                            IF err # ErrNone
                            THEN [pc |-> "done", req |-> req, ret |-> err]
                            ELSE [pc |-> "begin", req |-> req, ret |-> ErrNone]]
    /\ UNCHANGED <<wallets, matches, matchLock, billingLogs, agentLogs, agentTotals,
                   tableStatus, commits, settleFrame>>

\* the transaction opens, locks the match row and passes or fails the gate (settle.go 69-83)
SettleBegin(p) ==
    /\ settleCalls[p].pc = "begin"
    /\ LET req == settleCalls[p].req
           err == settleGate(req)
       IN /\ MatchRowFree(req.MatchID)
          /\ IF err # ErrNone
             THEN /\ settleCalls' = [settleCalls EXCEPT ![p].pc = "done", ![p].ret = err]
                  /\ UNCHANGED matchLock
             ELSE /\ settleCalls' = [settleCalls EXCEPT ![p].pc = "tx"]
                  /\ matchLock' = [matchLock EXCEPT ![req.MatchID] = p]
    /\ UNCHANGED <<wallets, matches, billingLogs, agentLogs, agentTotals,
                   tableStatus, commits, settleFrame>>

\* the body of the transaction runs and commits (settle.go 85-245)
SettleCommit(p) ==
    /\ settleCalls[p].pc = "tx"
    /\ LET req == settleCalls[p].req
           m == req.MatchID
           acc0 == [book |-> wallets, billing |-> <<>>, profit |-> <<>>, records |-> <<>>,
                    agents |-> <<>>, totalRake |-> 0, platformIncome |-> 0, touched |-> {}]
       IN \E acc \in { settleLoop(req.Results, rakeRule, agentRule, acc0) } :
          /\ wallets' = SaveAll(acc.book, acc.touched)
          /\ billingLogs' = billingLogs \o acc.billing
          /\ agentLogs' = agentLogs \o acc.profit
          /\ agentTotals' = [a \in WalletIDs |->
                               agentTotals[a]
                               + SumSeq([i \in DOMAIN acc.agents |->
                                           IF acc.agents[i].AgentID = a
                                           THEN acc.agents[i].Amount ELSE 0])]
          /\ matches' = [matches EXCEPT ![m] =
                           [@ EXCEPT !.ResultJSON = acc.records,
                                     !.RakeJSON = [Total |-> acc.totalRake,
                                                   Platform |-> acc.platformIncome,
                                                   Agents |-> acc.agents],
                                     !.EndedAt = 1]]
          /\ tableStatus' = [tableStatus EXCEPT ![matches[m].TableID] = "ended"]
          /\ matchLock' = [matchLock EXCEPT ![m] = IF @ = p THEN 0 ELSE @]
          /\ commits' = [commits EXCEPT ![m] = @ + 1]
          /\ settleCalls' = [settleCalls EXCEPT ![p].pc = "done", ![p].ret = ErrNone]
    /\ UNCHANGED settleFrame

\* a statement of the transaction fails or its context is cancelled: rollback
SettleAbort(p) ==
    /\ settleCalls[p].pc = "tx"
    /\ matchLock' = [matchLock EXCEPT ![settleCalls[p].req.MatchID] = IF @ = p THEN 0 ELSE @]
    /\ settleCalls' = [settleCalls EXCEPT ![p].pc = "done", ![p].ret = ErrStore]
    /\ UNCHANGED <<wallets, matches, billingLogs, agentLogs, agentTotals,
                   tableStatus, commits, settleFrame>>

\* the durable store is not part of the run (the value of the settlement variables in
\* the specifications of the other subsystems)
SettleAbsent ==
    /\ wallets = <<>>
    /\ matches = <<>>
    /\ matchLock = <<>>
    /\ billingLogs = <<>>
    /\ agentLogs = <<>>
    /\ agentTotals = <<>>
    /\ tableStatus = <<>>
    /\ settleCalls = <<>>
    /\ commits = <<>>
    /\ rakeRule = RakeRuleOf("none", 0, 0, 0, NoSteps, FALSE)
    /\ agentRule = [nil |-> TRUE, ratios |-> <<>>]

NextSettle ==
    \/ \E p \in SettleProcs, req \in SettleRequests : SettleCall(p, req)
    \/ \E p \in SettleProcs : SettleBegin(p)
    \/ \E p \in SettleProcs : SettleCommit(p)
    \/ \E p \in SettleProcs : SettleAbort(p)

SpecSettle == InitSettle /\ [][NextSettle]_vars

\* ------------------------------------------------------------------------
\* Settlement engine: properties
\* ------------------------------------------------------------------------
TotalAvailable(w) == SumOver([u \in WalletIDs |-> w[u].BalanceAvailable], WalletIDs)
PlatformIncome(ms) == SumOver([m \in MatchIDs |-> ms[m].RakeJSON.Platform], MatchIDs)
BillingSum(rows, type) ==
    SumSeq([i \in DOMAIN rows |-> IF rows[i].Type = type THEN rows[i].Delta ELSE 0])

\* C1: every step of the settlement engine, a committing SettleMatch included, keeps
\* points conserved: the wallet balanceAvailable deltas of players and agents plus the
\* platform income recorded by the step sum to 0, and the rake the step takes from
\* winners equals the agent shares plus the platform income it books (in the billing
\* rows and in the match's rake record alike).
C1_Conservation ==
    [][ /\ (TotalAvailable(wallets') - TotalAvailable(wallets))
            + (PlatformIncome(matches') - PlatformIncome(matches)) = 0
        /\ 0 - (BillingSum(billingLogs', "rake") - BillingSum(billingLogs, "rake"))
             = (BillingSum(billingLogs', "agent_share") - BillingSum(billingLogs, "agent_share"))
               + (BillingSum(billingLogs', "platform_income")
                  - BillingSum(billingLogs, "platform_income"))
        /\ BillingSum(billingLogs', "platform_income") = PlatformIncome(matches')
        /\ \A m \in MatchIDs :
              LET rj == matches'[m].RakeJSON
              IN rj.Total = rj.Platform
                            + SumSeq([i \in DOMAIN rj.Agents |-> rj.Agents[i].Amount])
      ]_vars

\* C1 witness: a match was settled with a rake split between two capped agent shares
\* and the platform
C1_Witness ==
    \E m \in MatchIDs :
        /\ matches[m].EndedAt # 0
        /\ matches[m].RakeJSON.Platform > 0
        /\ Len(matches[m].RakeJSON.Agents) = 2
        /\ Len(matches[m].ResultJSON) = 3

\* C2: a step of a SettleMatch call on a match that was already settled changes no
\* wallet, billing row, agent profit row, agent total, table status or match row, and
\* such a call that passed validation returns ErrMatchAlreadySettled; the settlement
\* fields of a match (endedAt among them) are written by exactly one commit.
C2_SettleOnce ==
    /\ [][ \A p \in SettleProcs :
              LET c == settleCalls[p]
              IN (/\ settleCalls'[p] # c
                  /\ c.pc \in {"begin", "tx"}
                  /\ c.req.MatchID \in MatchIDs
                  /\ matches[c.req.MatchID].EndedAt # 0)
                 => /\ UNCHANGED <<wallets, matches, billingLogs, agentLogs, agentTotals,
                                   tableStatus, commits>>
                    /\ settleCalls'[p].pc = "done"
                    /\ settleCalls'[p].ret = ErrMatchAlreadySettled
          ]_vars
    /\ [](\A m \in MatchIDs : /\ commits[m] <= 1
                               /\ (matches[m].EndedAt # 0) <=> (commits[m] = 1))

\* C2 witness: two calls on the same match have returned, one committed and the other
\* was answered ErrMatchAlreadySettled
C2_Witness ==
    \E p, q \in SettleProcs :
        /\ p # q
        /\ settleCalls[p].pc = "done" /\ settleCalls[q].pc = "done"
        /\ settleCalls[p].req.MatchID = settleCalls[q].req.MatchID
        /\ settleCalls[p].ret = ErrNone
        /\ settleCalls[q].ret = ErrMatchAlreadySettled
        /\ commits[settleCalls[p].req.MatchID] = 1

\* C18: every wallet has balanceAvailable >= 0, balanceFrozen >= 0 and balanceTotal >= 0
\* after any sequence of committed settlements
C18_WalletsNonNegative ==
    \A u \in WalletIDs :
        /\ wallets[u].BalanceAvailable >= 0
        /\ wallets[u].BalanceFrozen >= 0
        /\ wallets[u].BalanceTotal >= 0

\* ------------------------------------------------------------------------
\* Table runtime: cards and hand evaluation
\* ------------------------------------------------------------------------
MaxOf(a, b) == IF a > b THEN a ELSE b
minInt64(a, b) == IF a < b THEN a ELSE b

\* chexuanCardMap: code -> rank and point
ChexuanCard(rank, point) == [Rank |-> rank, Point |-> point]
chexuanCardMap ==
    [code \in {"RQ", "R2", "R8", "R4", "B10", "B4", "B6", "BJ", "R10", "R6", "R7",
               "B5", "B7", "B8", "B9", "R3", "BK"} |->
        CASE code = "RQ" -> ChexuanCard(150, 2)
          [] code = "R2" -> ChexuanCard(140, 2)
          [] code = "R8" -> ChexuanCard(130, 8)
          [] code = "R4" -> ChexuanCard(120, 4)
          [] code = "B10" -> ChexuanCard(110, 0)
          [] code = "B4" -> ChexuanCard(110, 4)
          [] code = "B6" -> ChexuanCard(110, 6)
          [] code = "BJ" -> ChexuanCard(100, 1)
          [] code = "R10" -> ChexuanCard(100, 0)
          [] code = "R6" -> ChexuanCard(100, 6)
          [] code = "R7" -> ChexuanCard(100, 7)
          [] code = "B5" -> ChexuanCard(90, 5)
          [] code = "B7" -> ChexuanCard(90, 7)
          [] code = "B8" -> ChexuanCard(90, 8)
          [] code = "B9" -> ChexuanCard(90, 9)
          [] code = "R3" -> ChexuanCard(90, 3)
          [] code = "BK" -> ChexuanCard(90, 6)]

\* chexuanDeckTemplate: how many copies of each code the 32-card deck holds
chexuanDeckTemplate ==
    [code \in DOMAIN chexuanCardMap |-> IF code \in {"R3", "BK"} THEN 1 ELSE 2]

\* chexuanSpecialWeights, keyed by the unordered pair of codes; 0 when the pair is not
\* in the table
chexuanSpecialWeights(c1, c2) ==
    LET key == {c1, c2}
    IN CASE key = {"BK", "R3"} -> 900
         [] key = {"B9", "RQ"} -> 850
         [] key = {"B8", "RQ"} \/ key = {"R8", "RQ"} -> 840
         [] key = {"B8", "R2"} \/ key = {"R8", "R2"} -> 830
         [] key = {"B7", "RQ"} \/ key = {"R7", "RQ"} -> 820
         [] key = {"B7", "R2"} \/ key = {"R7", "R2"} -> 810
         [] key = {"BJ", "R8"} -> 800
         [] key = {"B5", "R4"} -> 790
         [] key = {"B4", "B5"} -> 780
         [] key = {"B8", "BJ"} -> 770
         [] OTHER -> 0

EvaluateGroup(c1, c2) ==
    LET w == chexuanSpecialWeights(c1, c2)
        k1 == chexuanCardMap[c1]
        k2 == chexuanCardMap[c2]
    IN IF w > 0 THEN 10000000 + w
       ELSE IF c1 = c2 THEN 9000000 + MaxOf(k1.Rank, k2.Rank)
       ELSE ((k1.Point + k2.Point) % 10) * 100 + MaxOf(k1.Rank, k2.Rank)

evaluatePairScore(pair) ==
    IF Len(pair) < 2 THEN 0
    ELSE IF pair[1] \notin DOMAIN chexuanCardMap \/ pair[2] \notin DOMAIN chexuanCardMap THEN 0
    ELSE EvaluateGroup(pair[1], pair[2])

chexuanHeadMaxRank(cards) ==
    IF Len(cards) = 0 THEN 0
    ELSE CHOOSE r \in {chexuanCardMap[cards[i]].Rank : i \in DOMAIN cards} :
            \A i \in DOMAIN cards : chexuanCardMap[cards[i]].Rank <= r

\* headScore*1000000 + tailScore of one split exceeds that of another (the products
\* are compared without being formed)
TotalGreater(h1, t1, h2, t2) ==
    IF h1 - h2 >= 11 THEN TRUE
    ELSE IF h2 - h1 >= 11 THEN FALSE
    ELSE (h1 - h2) * 1000000 > t2 - t1

\* the candidate splits of BestSplit in the order its loops visit them
SplitsOf(cards) ==
    LET n == Len(cards)
        pairs == { <<i, j>> \in (1 .. n) \X (1 .. n) : i < j }
        Before(p, q) == p[1] < q[1] \/ (p[1] = q[1] /\ p[2] < q[2])
        nth(k) == CHOOSE p \in pairs : Cardinality({q \in pairs : Before(q, p)}) = k - 1
        Split(p) ==
            LET head == <<cards[p[1]], cards[p[2]]>>
                tail == SelectSeq([k \in 1 .. n |-> IF k = p[1] \/ k = p[2] THEN "" ELSE cards[k]],
                                  LAMBDA c : c # "")
                hs == evaluatePairScore(head)
                ts == evaluatePairScore(tail)
            IN [head |-> head, tail |-> tail, hs |-> hs, ts |-> ts,
                valid |-> IF hs = ts
                          THEN ~(chexuanHeadMaxRank(head) < chexuanHeadMaxRank(tail))
                          ELSE hs >= ts]
    IN [k \in 1 .. Cardinality(pairs) |-> Split(nth(k))]

\* the first split of the set S in loop order
FirstInOrder(splits, S) == CHOOSE k \in S : \A m \in S : k <= m

\* the first split, in loop order, that no other split of the set S exceeds
FirstBest(splits, S) ==
    CHOOSE k \in S :
        /\ \A m \in S : ~TotalGreater(splits[m].hs, splits[m].ts, splits[k].hs, splits[k].ts)
        /\ \A m \in S : m < k =>
              TotalGreater(splits[k].hs, splits[k].ts, splits[m].hs, splits[m].ts)

\* the choice BestSplit makes among the candidate splits: the best valid one, or the
\* best of all when none is valid
pickSplit(splits) ==
    LET valid == {k \in DOMAIN splits : splits[k].valid}
    IN IF valid # {}
       THEN [splits[FirstBest(splits, valid)] EXCEPT !.valid = TRUE]
       ELSE [splits[FirstBest(splits, DOMAIN splits)] EXCEPT !.valid = FALSE]

BestSplit(cards) ==
    IF Len(cards) < 2 THEN [head |-> <<>>, tail |-> <<>>, isValid |-> FALSE]
    ELSE IF Len(cards) = 2 THEN [head |-> cards, tail |-> <<>>, isValid |-> TRUE]
    ELSE CHOOSE out \in { [head |-> b.head, tail |-> b.tail, isValid |-> b.valid] :
                          b \in { pickSplit(s) : s \in {SplitsOf(cards)} } } : TRUE

checkSanHua(cards) ==
    LET counts == {cards[i] : i \in DOMAIN cards}
    IN IF Len(cards) < 3 THEN FALSE
       ELSE \/ {"B10", "R10", "BJ"} \subseteq counts
            \/ {"B6", "R6", "BK"} \subseteq counts

\* poker cards are [r |-> rank character, s |-> suit character]
PokerCard(r, s) == [r |-> r, s |-> s]
parseCard(card) ==
    CASE card.r \in {"2", "3", "4", "5", "6", "7", "8", "9"} ->
            (CHOOSE v \in 2 .. 9 : <<"2", "3", "4", "5", "6", "7", "8", "9">>[v - 1] = card.r)
      [] card.r = "T" -> 10
      [] card.r = "J" -> 11
      [] card.r = "Q" -> 12
      [] card.r = "K" -> 13
      [] card.r = "A" -> 14
      [] OTHER -> 0

\* EvaluateHand: pair or high card on the two highest ranks
EvaluateHand(cards) ==
    IF Len(cards) = 0 THEN 0
    ELSE LET ranks == [i \in DOMAIN cards |-> parseCard(cards[i])]
             top == CHOOSE i \in DOMAIN ranks : \A j \in DOMAIN ranks : ranks[j] <= ranks[i]
             rest == DOMAIN ranks \ {top}
             second == IF rest = {} THEN 0
                       ELSE ranks[CHOOSE i \in rest : \A j \in rest : ranks[j] <= ranks[i]]
         IN IF Len(cards) >= 2 /\ ranks[top] = second THEN 1000000 * ranks[top]
            ELSE ranks[top] * 100 + second

\* ------------------------------------------------------------------------
\* Table runtime: construction and the helpers of the actor
\* ------------------------------------------------------------------------
PhaseWaiting == "waiting"
PhasePlaying == "playing"
PhaseSettling == "settling"
PhaseEnded == "ended"

\* A value that is used more than once is bound by CHOOSE out \in { e : v \in {value} } : TRUE,
\* which is e with v standing for the value.

\* the elements of a finite set of integers in increasing order
SortedSeq(S) ==
    [k \in 1 .. Cardinality(S) |-> CHOOSE x \in S : Cardinality({y \in S : y < x}) = k - 1]

\* sort.Slice: the sort is not stable, so elements that compare equal come out in an
\* order the caller cannot rely on; ord is the permutation that decides it
SortSlice(seq, ord, Less(_, _)) ==
    CHOOSE out \in
      { LET rank(i) == Cardinality({j \in DOMAIN pre : Less(pre[j], pre[i])})
                       + Cardinality({j \in DOMAIN pre : j < i /\ ~Less(pre[i], pre[j])
                                                              /\ ~Less(pre[j], pre[i])})
        IN [k \in DOMAIN pre |-> pre[CHOOSE i \in DOMAIN pre : rank(i) = k - 1]] :
          pre \in { [i \in DOMAIN seq |-> seq[ord[i]]] } } : TRUE

NoSplit == [Head |-> <<>>, Tail |-> <<>>, IsDaoba |-> FALSE, set |-> FALSE]
SeatState(seatIdx, userID, chips) ==
    [SeatIndex |-> seatIdx, UserID |-> userID, Chips |-> chips, Bet |-> 0,
     Status |-> "waiting", Ready |-> FALSE, cards |-> <<>>, Split |-> NoSplit]

\* Table.PlayersJSON is a JSON object: seat number -> the fields of the player.
\* The seats it yields are those with a userId, sorted by seat number; chips is 0
\* when the object has no "chips" key.
PlayerJSON(userID, hasChips, chips) == [userId |-> userID, hasChips |-> hasChips, chips |-> chips]
parsePlayersJSON(raw) ==
    LET keys == SortedSeq({k \in DOMAIN raw : raw[k].userId # 0})
    IN [i \in DOMAIN keys |->
          SeatState(keys[i], raw[keys[i]].userId,
                    IF raw[keys[i]].hasChips THEN raw[keys[i]].chips ELSE 0)]

Scene(basePi, minUnitPi, bobo, mango, chexuanName) ==
    [BasePi |-> basePi, MinUnitPi |-> minUnitPi, BoboEnabled |-> bobo,
     MangoEnabled |-> mango, chexuanName |-> chexuanName]
TableRow(playersJSON, mangoStreak) == [PlayersJSON |-> playersJSON, MangoStreak |-> mangoStreak]

newTableRuntime(table, scene, matchID) ==
    LET seats == parsePlayersJSON(table.PlayersJSON)
    IN [matchID |-> matchID,
        basePi |-> scene.BasePi,
        minUnitPi |-> scene.MinUnitPi,
        boboEnabled |-> scene.BoboEnabled,
        chexuanMode |-> scene.BoboEnabled \/ scene.MangoEnabled \/ scene.chexuanName,
        phase |-> PhaseWaiting,
        round |-> 0,
        turnSeat |-> 0,
        lastRaise |-> 0,
        pot |-> 0,
        mangoStreak |-> table.MangoStreak,
        bankerSeat |-> IF Len(seats) > 0 THEN seats[1].SeatIndex ELSE 0,
        round1Bet |-> FALSE,
        round2Bet |-> FALSE,
        round2Knock |-> FALSE,
        lastAggSeat |-> 0,
        tailBigWin |-> FALSE,
        seats |-> seats,
        roundActed |-> {},
        firstRaiseDone |-> FALSE,
        raisedRound1 |-> FALSE,
        raisedRound2 |-> FALSE,
        logs |-> 0,
        seq |-> 0,
        deck |-> <<>>,
        subscribers |-> [u \in {} |-> 0],
        timer |-> "off",
        SettlementResults |-> <<>>,
        finished |-> 0]

\* rt.seatByUser: the seat of a user, 0 when the user has none
seatByUser(t, userID) ==
    IF \E i \in DOMAIN t.seats : t.seats[i].UserID = userID
    THEN t.seats[CHOOSE i \in DOMAIN t.seats : t.seats[i].UserID = userID].SeatIndex
    ELSE 0

\* position in rt.seats of the seat with that index, 0 when there is none
findSeatIdxLocked(t, seatIdx) ==
    IF \E i \in DOMAIN t.seats : t.seats[i].SeatIndex = seatIdx
    THEN CHOOSE i \in DOMAIN t.seats : t.seats[i].SeatIndex = seatIdx
    ELSE 0

findSeatLocked(t, seatIdx) == t.seats[findSeatIdxLocked(t, seatIdx)]

markSeatStatusLocked(t, seatIdx, status) ==
    IF findSeatIdxLocked(t, seatIdx) = 0 THEN t
    ELSE [t EXCEPT !.seats[findSeatIdxLocked(t, seatIdx)].Status = status]

activeSeatsLocked(t) ==
    LET act == SelectSeq(t.seats, LAMBDA s : s.Status # "folded" /\ s.Status # "eliminated")
    IN [i \in DOMAIN act |-> act[i].SeatIndex]

findFirstActiveSeatLocked(t) ==
    IF Len(activeSeatsLocked(t)) = 0 THEN 0 ELSE activeSeatsLocked(t)[1]

nextActiveAfterLocked(t, seatIdx) ==
    LET active == activeSeatsLocked(t)
    IN IF Len(active) = 0 THEN 0
       ELSE IF seatIdx = 0 THEN active[1]
       ELSE IF \E i \in DOMAIN active : active[i] = seatIdx
            THEN active[((CHOOSE i \in DOMAIN active : active[i] = seatIdx) % Len(active)) + 1]
       ELSE active[1]

firstActorSeatLocked(t) ==
    nextActiveAfterLocked(t, IF t.bankerSeat = 0 THEN findFirstActiveSeatLocked(t)
                             ELSE t.bankerSeat)

allReadyLocked(t) ==
    IF Len(t.seats) = 0 THEN FALSE ELSE \A i \in DOMAIN t.seats : t.seats[i].Ready

appendLogLocked(t) == [t EXCEPT !.logs = @ + 1]

\* persistRoundLogLocked takes the next seq for the row it writes; it does nothing
\* when the runtime was loaded without an active match
persistRoundLogLocked(t) == IF t.matchID = 0 THEN t ELSE [t EXCEPT !.seq = @ + 1]

resetTurnTimerLocked(t) == [t EXCEPT !.timer = "armed"]
cancelTimerLocked(t) == [t EXCEPT !.timer = "off"]
\* the deadline of the turn has passed
isTurnExpiredLocked(t) == t.timer = "expired"

markActedLocked(t, seatIdx) == [t EXCEPT !.roundActed = @ \cup {seatIdx}]
resetRoundActedLocked(t, seatIdx) ==
    [t EXCEPT !.roundActed = IF seatIdx # 0 THEN {seatIdx} ELSE {}]

canPassLocked(t, seatIdx) ==
    IF findSeatIdxLocked(t, seatIdx) = 0 THEN FALSE
    ELSE IF t.round >= 3 THEN FALSE
    ELSE IF findSeatLocked(t, seatIdx).Bet >= t.lastRaise THEN TRUE
    ELSE findSeatLocked(t, seatIdx).Chips = 0

requiredCallAmountLocked(t, seatIdx) ==
    IF t.round = 1 /\ t.roundActed = {} /\ seatIdx = firstActorSeatLocked(t)
    THEN MaxOf(t.lastRaise, t.basePi * 2)
    ELSE t.lastRaise

isSeatReadyLocked(t, seatIdx) ==
    IF findSeatIdxLocked(t, seatIdx) = 0 THEN FALSE ELSE findSeatLocked(t, seatIdx).Ready

\* allowedActionsLocked: the actions the state message of a user offers, as a set
allowedActionsLocked(t, userID) ==
    LET seatIdx == seatByUser(t, userID)
        pos == findSeatIdxLocked(t, seatIdx)
        seat == t.seats[pos]
        firstActor == t.round = 1 /\ t.roundActed = {} /\ seatIdx = firstActorSeatLocked(t)
    IN IF seatIdx = 0 THEN {}
       ELSE IF t.phase = PhaseWaiting
       THEN (IF isSeatReadyLocked(t, seatIdx) THEN {} ELSE {"ready"})
       ELSE IF t.phase # PhasePlaying THEN {}
       ELSE IF t.turnSeat # seatIdx THEN {}
       ELSE IF pos = 0 \/ seat.Status \in {"folded", "eliminated"} THEN {}
       ELSE IF t.round >= 3 THEN {"fold"}
       ELSE IF t.round2Knock THEN {"fold", "call"}
       ELSE {"fold"}
            \cup (IF canPassLocked(t, seatIdx) THEN {"pass"} ELSE {"call"})
            \cup (IF t.round = 1 /\ seat.Chips > 0 /\ ~firstActor THEN {"raise"} ELSE {})
            \cup (IF t.round = 2
                  THEN (IF t.boboEnabled THEN {"knock_bobo"}
                        ELSE IF seat.Chips > 0 THEN {"raise"} ELSE {})
                  ELSE IF t.round = 1 /\ t.boboEnabled THEN {"knock_bobo"} ELSE {})

\* a round-1 raise threshold of 5 minimum units or 5 base antes, whichever is more
raiseThresholdMax(t) == MaxOf(t.minUnitPi * 5, t.basePi * 5)

\* the round-1 raise threshold: 5 minimum units, 5 base antes when the unit is 0
raiseThreshold(t) == IF t.minUnitPi * 5 = 0 THEN t.basePi * 5 ELSE t.minUnitPi * 5

minRaiseAmountLocked(t) ==
    LET m1 == IF t.round = 1 /\ ~t.firstRaiseDone /\ raiseThreshold(t) > t.lastRaise
              THEN raiseThreshold(t) ELSE t.lastRaise
    IN IF t.minUnitPi > 0 /\ m1 < t.minUnitPi THEN t.minUnitPi ELSE m1

shouldDealThisStageLocked(t) ==
    IF t.round = 0 THEN TRUE ELSE t.chexuanMode /\ (t.round = 1 \/ t.round = 2)

shouldSettleLocked(t) == Len(activeSeatsLocked(t)) = 1

\* a round that is complete as soon as the bets are level, whoever has acted
shouldAdvanceRoundLockedBetsOnly(t) ==
    IF t.phase # PhasePlaying THEN FALSE
    ELSE \A i \in DOMAIN t.seats :
            (t.seats[i].Status # "folded" /\ t.seats[i].Status # "eliminated")
            => ~(t.seats[i].Bet < t.lastRaise /\ t.seats[i].Chips > 0)

shouldAdvanceRoundLocked(t) ==
    IF t.phase # PhasePlaying THEN FALSE
    ELSE IF t.round >= 3 THEN TRUE
    ELSE IF Len(activeSeatsLocked(t)) <= 1 THEN TRUE
    ELSE \A i \in DOMAIN t.seats :
            (t.seats[i].Status # "folded" /\ t.seats[i].Status # "eliminated")
            => /\ ~(t.seats[i].Bet < t.lastRaise /\ t.seats[i].Chips > 0)
               /\ t.seats[i].SeatIndex \in t.roundActed

\* dealCardsLocked: two cards per active seat before round 1, one more before rounds
\* 2 and 3 in Chexuan mode, one card at a time around the active seats while the deck
\* has cards
dealCardsLocked(t) ==
    LET count == IF t.round = 0 THEN 2
                 ELSE IF t.chexuanMode /\ (t.round = 1 \/ t.round = 2) THEN 1 ELSE 0
        active == activeSeatsLocked(t)
        n == Len(active)
        dealt == minInt64(count * n, Len(t.deck))
        drawn(seatIdx) ==
            SelectSeq([j \in 1 .. dealt |-> j], LAMBDA j : active[((j - 1) % n) + 1] = seatIdx)
        old(i) == IF t.round = 0 THEN <<>> ELSE t.seats[i].cards
    IN IF count = 0 THEN t
       ELSE [t EXCEPT
               !.seats = [i \in DOMAIN t.seats |->
                            [t.seats[i] EXCEPT !.cards =
                                old(i) \o [k \in DOMAIN drawn(t.seats[i].SeatIndex) |->
                                             t.deck[drawn(t.seats[i].SeatIndex)[k]]]]],
               !.deck = SubSeq(t.deck, dealt + 1, Len(t.deck))]

applyAntesLocked(t) ==
    LET ante(s) == IF s.Status = "folded" \/ s.Status = "eliminated" THEN 0
                   ELSE IF minInt64(t.basePi, s.Chips) <= 0 THEN 0
                   ELSE minInt64(t.basePi, s.Chips)
    IN IF t.basePi <= 0 THEN t
       ELSE [t EXCEPT
               !.seats = [i \in DOMAIN t.seats |->
                            [t.seats[i] EXCEPT !.Chips = @ - ante(t.seats[i]),
                                               !.Bet = @ + ante(t.seats[i])]],
               !.pot = @ + SumSeq([i \in DOMAIN t.seats |-> ante(t.seats[i])]),
               !.lastRaise = MaxOf(@, t.basePi)]

\* ---- messages to subscribers.  A world w is the runtime together with the channels
\* of the connections: [rt, chans].
OutgoingMessage(type, seq) == [Type |-> type, Seq |-> seq]

\* a non-blocking send: the message is dropped when the buffer of the channel is full
offer(chs, c, msg) ==
    IF Len(chs[c].buf) < 8 THEN [chs EXCEPT ![c].buf = Append(@, msg)] ELSE chs

pushMessageLocked(w, userID, type) ==
    LET seq == w.rt.seq + 1
    IN [w EXCEPT !.rt.seq = seq,
                 !.chans = IF userID \in DOMAIN w.rt.subscribers
                           THEN offer(@, w.rt.subscribers[userID], OutgoingMessage(type, seq))
                           ELSE @]

pushStateLocked(w, userID) == pushMessageLocked(w, userID, "state")

broadcastStateLockedStaleSeq(w) ==
    LET subscribed(c) == \E u \in DOMAIN w.rt.subscribers : w.rt.subscribers[u] = c
    IN [w EXCEPT !.chans = [c \in DOMAIN w.chans |->
                              IF subscribed(c)
                              THEN offer(w.chans, c, OutgoingMessage("state", w.rt.seq))[c]
                              ELSE w.chans[c]]]

broadcastStateLocked(w) ==
    LET seq == w.rt.seq + 1
        subscribed(c) == \E u \in DOMAIN w.rt.subscribers : w.rt.subscribers[u] = c
    IN [w EXCEPT !.rt.seq = seq,
                 !.chans = [c \in DOMAIN w.chans |->
                              IF subscribed(c)
                              THEN offer(w.chans, c, OutgoingMessage("state", seq))[c]
                              ELSE w.chans[c]]]

finishWithResultsLockedReopened(w, results) ==
    [broadcastStateLocked([w EXCEPT !.rt.phase = PhaseWaiting,
                                    !.rt.turnSeat = 0,
                                    !.rt.timer = "off",
                                    !.rt.SettlementResults = results])
       EXCEPT !.rt.finished = @ + 1]

finishWithResultsLocked(w, results) ==
    [broadcastStateLocked([w EXCEPT !.rt.phase = PhaseEnded,
                                    !.rt.turnSeat = 0,
                                    !.rt.timer = "off",
                                    !.rt.SettlementResults = results])
       EXCEPT !.rt.finished = @ + 1]

finishLocked(w) ==
    [broadcastStateLocked([w EXCEPT !.rt.phase = PhaseEnded, !.rt.turnSeat = 0,
                                    !.rt.timer = "off"])
       EXCEPT !.rt.finished = @ + 1]

\* ---- settlement of a hand inside the runtime
\* applyChipUpdatesLocked: each result returns bet + net to the seat at position
\* seatIdx of rt.seats when that is positive
applyChipUpdatesLockedSkipped(t, results) == t

RECURSIVE applyChipUpdatesLocked(_, _)
applyChipUpdatesLocked(t, results) ==
    IF results = <<>> THEN t
    ELSE LET res == Head(results)
             seatIdx == seatByUser(t, res.UserID)
             returned == t.seats[seatIdx].Bet + res.NetPoints
         IN IF res.UserID = 0 \/ seatIdx = 0 \/ seatIdx \notin DOMAIN t.seats
            THEN applyChipUpdatesLocked(t, Tail(results))
            ELSE CHOOSE out \in
                   { applyChipUpdatesLocked(v, Tail(results)) :
                       v \in { IF returned > 0
                               THEN [t EXCEPT !.seats[seatIdx].Chips = @ + returned]
                               ELSE t } } : TRUE

\* a mango settlement that charges the seats that lost and credits nobody
applyMangoSettlementLockedUncredited(t, results, showdown) ==
    [rt |-> t,
     results |-> [i \in DOMAIN results |->
                    [results[i] EXCEPT !.NetPoints = IF @ < 0 THEN @ - t.basePi ELSE @]]]

\* applyMangoSettlementLocked: the new streak and the results after the mango pot was
\* moved from the losers to the winner
applyMangoSettlementLocked(t, results, showdown) ==
    LET round1Bet == t.round1Bet \/ t.raisedRound1
        round2Bet == t.round2Bet \/ t.raisedRound2 \/ t.round2Knock
        newStreak == IF showdown \/ t.round >= 3 THEN 0
                     ELSE IF round2Bet THEN 0
                     ELSE IF round1Bet THEN (IF t.mangoStreak < 3 THEN t.mangoStreak + 1
                                             ELSE t.mangoStreak)
                     ELSE IF t.mangoStreak = 3 THEN 3
                     ELSE 0
        mangoValue == newStreak * 2 * t.basePi
        winIdx == CHOOSE i \in DOMAIN results :
                     /\ \A j \in DOMAIN results : results[j].NetPoints <= results[i].NetPoints
                     /\ \A j \in DOMAIN results : j < i => results[j].NetPoints < results[i].NetPoints
        loserIdx == SelectSeq([i \in DOMAIN results |-> i], LAMBDA i : i # winIdx)
        share == mangoValue \div Len(loserIdx)
        remainder == mangoValue - share * Len(loserIdx)
    IN IF t.basePi <= 0 THEN [rt |-> t, results |-> results]
       ELSE [rt |-> [t EXCEPT !.mangoStreak = newStreak],
             results |-> IF mangoValue > 0 /\ Len(results) > 0 /\ Len(loserIdx) > 0
                         THEN [i \in DOMAIN results |->
                                 [results[i] EXCEPT !.NetPoints =
                                    IF i = winIdx THEN @ + mangoValue
                                    ELSE IF i = loserIdx[1] /\ remainder > 0
                                         THEN @ - share - remainder
                                    ELSE @ - share]]
                         ELSE results]

\* shiftLedgerDiff: the amount the protected seat is spared is taken from the positive
\* entries of the ledger, in the order the map is iterated
RECURSIVE shiftLedgerDiff(_, _, _, _)
shiftLedgerDiff(ledger, order, excludeUID, diff) ==
    IF diff = 0 \/ order = <<>> THEN ledger
    ELSE LET uid == Head(order)
         IN IF uid = excludeUID \/ ledger[uid] <= 0
            THEN shiftLedgerDiff(ledger, Tail(order), excludeUID, diff)
            ELSE IF ledger[uid] >= diff THEN [ledger EXCEPT ![uid] = @ - diff]
            ELSE IF diff - ledger[uid] <= 0 THEN [ledger EXCEPT ![uid] = 0]
            ELSE shiftLedgerDiff([ledger EXCEPT ![uid] = 0], Tail(order), excludeUID,
                                 diff - ledger[uid])

\* buildResultsFromLedger: one result per entry, in the order the map is iterated
buildResultsFromLedger(ledger, order) ==
    [i \in DOMAIN order |-> PlayerResult(order[i], ledger[order[i]])]

\* the end of every settlement but the tail-big one: the mango pot is applied to the
\* results, the chips are returned to the seats, and the hand is finished
settleResultsLocked(w, results, showdown, returnChips) ==
    CHOOSE out \in
      { IF ~returnChips THEN finishWithResultsLocked([w EXCEPT !.rt = m.rt], m.results)
        ELSE CHOOSE done \in
               { finishWithResultsLocked([w EXCEPT !.rt = v], m.results) :
                   v \in { applyChipUpdatesLocked(m.rt, m.results) } } : TRUE :
          m \in { applyMangoSettlementLocked(w.rt, results, showdown) } } : TRUE

settleChexuanMangoLockedUncapped(w) ==
    CHOOSE out \in
      { CHOOSE done \in
          { finishWithResultsLocked([w EXCEPT !.rt = v], results) :
              v \in { applyChipUpdatesLocked([w.rt EXCEPT !.mangoStreak = @ + 1],
                                             results) } } : TRUE :
          results \in { [i \in DOMAIN SelectSeq(w.rt.seats, LAMBDA s : s.UserID # 0) |->
                           PlayerResult(SelectSeq(w.rt.seats, LAMBDA s : s.UserID # 0)[i].UserID,
                                        0)] } } : TRUE

\* settleChexuanMangoLocked (liu-ju): every seat gets a zero result and its bet back,
\* the streak grows up to 3
settleChexuanMangoLocked(w) ==
    CHOOSE out \in
      { CHOOSE done \in
          { finishWithResultsLocked([w EXCEPT !.rt = v], results) :
              v \in { applyChipUpdatesLocked(
                          [w.rt EXCEPT !.mangoStreak = IF @ < 3 THEN @ + 1 ELSE 3],
                          results) } } : TRUE :
          results \in { [i \in DOMAIN SelectSeq(w.rt.seats, LAMBDA s : s.UserID # 0) |->
                           PlayerResult(SelectSeq(w.rt.seats, LAMBDA s : s.UserID # 0)[i].UserID,
                                        0)] } } : TRUE

\* the chexuanPlayer built from a seat at showdown
chexuanPlayer(seat) ==
    LET base == [SeatIdx |-> seat.SeatIndex, UserID |-> seat.UserID, Bet |-> seat.Bet,
                 Head |-> <<>>, Tail |-> <<>>, HeadScore |-> 0, TailScore |-> 0,
                 HeadMax |-> 0, Folded |-> FALSE, Invalid |-> FALSE, IsSanHua |-> FALSE]
    IN IF seat.Status = "folded"
       THEN [base EXCEPT !.Folded = TRUE, !.HeadScore = 0 - 1, !.TailScore = 0 - 1]
       ELSE IF checkSanHua(seat.cards) THEN [base EXCEPT !.IsSanHua = TRUE]
       ELSE CHOOSE out \in
              { [base EXCEPT !.Head = b.head, !.Tail = b.tail,
                             !.HeadScore = evaluatePairScore(b.head),
                             !.TailScore = evaluatePairScore(b.tail),
                             !.HeadMax = chexuanHeadMaxRank(b.head),
                             !.Invalid = ~b.isValid] :
                  b \in { BestSplit(seat.cards) } } : TRUE

\* the comparator settleChexuanLocked sorts the participants with
chexuanLess(a, b) ==
    IF a.Folded # b.Folded THEN ~a.Folded
    ELSE IF a.Folded THEN FALSE
    ELSE IF a.Invalid # b.Invalid THEN ~a.Invalid
    ELSE IF a.HeadScore # b.HeadScore THEN a.HeadScore > b.HeadScore
    ELSE IF a.HeadMax # b.HeadMax THEN a.HeadMax > b.HeadMax
    ELSE a.TailScore > b.TailScore

compareScore(a, b) == IF a > b THEN 1 ELSE IF a < b THEN 0 - 1 ELSE 0

\* a comparison on the head alone, in which an equal head counts as a win
compareHeadTieWins(a, b) == IF compareScore(a.HeadScore, b.HeadScore) >= 0 THEN 1 ELSE 0 - 1

compareChexuanSplit(a, b) ==
    LET headCmp == compareScore(a.HeadScore, b.HeadScore)
        tailCmp == compareScore(a.TailScore, b.TailScore)
    IN IF a.IsSanHua \/ b.IsSanHua THEN 0
       ELSE IF a.Folded /\ b.Folded THEN 0
       ELSE IF a.Folded THEN 0 - 1
       ELSE IF b.Folded THEN 1
       ELSE IF a.Invalid /\ b.Invalid THEN 0
       ELSE IF a.Invalid THEN 0 - 1
       ELSE IF b.Invalid THEN 1
       ELSE IF headCmp >= 0 /\ tailCmp >= 0 /\ (headCmp > 0 \/ tailCmp > 0) THEN 1
       ELSE IF headCmp <= 0 /\ tailCmp <= 0 /\ (headCmp < 0 \/ tailCmp < 0) THEN 0 - 1
       ELSE 0

\* the pairwise settle of settleChexuanLocked: what the participant at position k of
\* the sorted list nets over all the pairs (i, j), i < j, it is part of
pairwiseNet(ps, k) ==
    LET amount(i, j) == IF minInt64(ps[i].Bet, ps[j].Bet) <= 0 THEN 0
                        ELSE minInt64(ps[i].Bet, ps[j].Bet)
    IN SumSeq([j \in DOMAIN ps |->
                  IF j > k THEN compareChexuanSplit(ps[k], ps[j]) * amount(k, j)
                  ELSE IF j < k THEN 0 - compareChexuanSplit(ps[j], ps[k]) * amount(j, k)
                  ELSE 0])

chexuanLedgerOfLostBets(t, ps, shiftUsers) ==
    [u \in {ps[k].UserID : k \in DOMAIN ps} |->
        0 - ps[CHOOSE k \in DOMAIN ps : ps[k].UserID = u].Bet]

\* the ledger of the pairwise settle among the sorted participants ps, with the loss
\* of the first of them capped (head-big protection); shiftUsers is the order in which
\* the ledger is iterated to take the spared amount from the others
chexuanLedger(t, ps, shiftUsers) ==
    CHOOSE out \in
      { LET top == ps[1]
            lossCap == 0 - (t.mangoStreak * 2 * t.basePi + t.basePi)
        IN IF ~top.Folded /\ ~top.Invalid /\ paired[top.UserID] < lossCap
           THEN shiftLedgerDiff([paired EXCEPT ![top.UserID] = lossCap], shiftUsers,
                                top.UserID, lossCap - paired[top.UserID])
           ELSE paired :
          paired \in { [u \in {ps[k].UserID : k \in DOMAIN ps} |->
                          pairwiseNet(ps, CHOOSE k \in DOMAIN ps : ps[k].UserID = u)] } } : TRUE

\* the ledger of the tail-big override: the last aggressor takes every other bet
chexuanTailBigLedger(t, uids) ==
    IF findSeatIdxLocked(t, t.lastAggSeat) = 0 THEN [u \in uids |-> 0]
    ELSE [u \in uids |->
            IF u = findSeatLocked(t, t.lastAggSeat).UserID
            THEN SumSeq([i \in DOMAIN t.seats |->
                           IF t.seats[i].UserID = findSeatLocked(t, t.lastAggSeat).UserID
                              \/ t.seats[i].UserID = 0
                           THEN 0 ELSE t.seats[i].Bet])
            ELSE 0 - t.seats[CHOOSE i \in DOMAIN t.seats : t.seats[i].UserID = u].Bet]

\* settleChexuanLocked once the participants are built and sorted: unsorted in the
\* order of the seats, ps as sort.Slice left them
chexuanSettleSorted(w, ch, unsorted, ps) ==
    LET t == w.rt
        n == Len(unsorted)
        users(o) == [i \in 1 .. n |-> unsorted[SelectSeq(o, LAMBDA x : x <= n)[i]].UserID]
        tailBig == t.tailBigWin /\ t.lastAggSeat # 0
    IN IF n = 0 THEN finishLocked(w)
       ELSE CHOOSE out \in
              { settleResultsLocked(w, results, n > 1, ~tailBig) :
                  results \in
                    { buildResultsFromLedger(
                          IF tailBig
                          THEN chexuanTailBigLedger(t, {unsorted[i].UserID : i \in 1 .. n})
                          ELSE chexuanLedger(t, ps, users(ch.shiftOrd)),
                          users(ch.resOrd)) } } : TRUE

\* settleChexuanLocked once the participants are built: the split view is stored on
\* the seats that show cards, and the participants are sorted
chexuanSettleAmong(w, ch, all) ==
    LET t == w.rt
        seated == { i \in DOMAIN t.seats :
                      t.seats[i].Status # "eliminated" /\ t.seats[i].UserID # 0 }
    IN CHOOSE out \in
         { CHOOSE done \in
             { chexuanSettleSorted(w1, ch, unsorted, ps) :
                 ps \in { SortSlice(unsorted,
                                    SelectSeq(ch.sortOrd, LAMBDA x : x <= Len(unsorted)),
                                    chexuanLess) } } : TRUE :
             w1 \in { [w EXCEPT !.rt.seats =
                         [i \in DOMAIN t.seats |->
                            IF i \in seated /\ ~all[i].Folded /\ ~all[i].IsSanHua
                            THEN [t.seats[i] EXCEPT !.Split =
                                    [Head |-> all[i].Head, Tail |-> all[i].Tail,
                                     IsDaoba |-> all[i].Invalid, set |-> TRUE]]
                            ELSE t.seats[i]]] },
             unsorted \in { SelectSeq(all, LAMBDA p : \E i \in seated :
                                                         t.seats[i].UserID = p.UserID) } } : TRUE

\* ch carries what the code leaves to chance: the shuffled deck, the order sort.Slice
\* leaves equal elements in, and the orders in which the ledger map is iterated
settleChexuanLocked(w, ch) ==
    CHOOSE out \in
      { chexuanSettleAmong(w, ch, all) :
          all \in { [i \in DOMAIN w.rt.seats |-> chexuanPlayer(w.rt.seats[i])] } } : TRUE

\* the comparator of the showdown outside Chexuan mode: score, descending
contenderLess(a, b) == a.Score > b.Score

\* the results of a hand outside Chexuan mode when one seat is left: every other seat
\* that bet loses its bet to it
foldWinResults(t, winnerSeat) ==
    LET losers == SelectSeq(t.seats, LAMBDA s : s.SeatIndex # winnerSeat /\ s.Bet > 0)
    IN [i \in DOMAIN losers |-> PlayerResult(losers[i].UserID, 0 - losers[i].Bet)]
       \o <<PlayerResult(findSeatLocked(t, winnerSeat).UserID,
                         SumSeq([i \in DOMAIN losers |-> losers[i].Bet]))>>

\* the results of a showdown outside Chexuan mode: the first of the sorted candidates
\* takes the bets of the others and of the folded seats
showdownResults(t, candidates) ==
    LET beaten == SelectSeq(candidates, LAMBDA c : c.SeatIdx # candidates[1].SeatIdx)
        folded == SelectSeq(t.seats, LAMBDA s : s.Status = "folded" /\ s.Bet > 0)
    IN [i \in DOMAIN beaten |-> PlayerResult(beaten[i].UserID, 0 - beaten[i].Bet)]
       \o [i \in DOMAIN folded |-> PlayerResult(folded[i].UserID, 0 - folded[i].Bet)]
       \o <<PlayerResult(candidates[1].UserID,
                         SumSeq([i \in DOMAIN beaten |-> beaten[i].Bet])
                         + SumSeq([i \in DOMAIN folded |-> folded[i].Bet]))>>

\* the candidates of the showdown, in the order of the active seats
contenders(t, activeSeats) ==
    [i \in DOMAIN activeSeats |->
        [SeatIdx |-> activeSeats[i],
         UserID |-> findSeatLocked(t, activeSeats[i]).UserID,
         Score |-> EvaluateHand(findSeatLocked(t, activeSeats[i]).cards),
         Bet |-> findSeatLocked(t, activeSeats[i]).Bet]]

\* the results of a hand outside Chexuan mode
pokerResults(t, ch, activeSeats) ==
    IF Len(activeSeats) = 1 THEN foldWinResults(t, activeSeats[1])
    ELSE CHOOSE out \in
           { showdownResults(t, candidates) :
               candidates \in
                 { SortSlice(contenders(t, activeSeats),
                             SelectSeq(ch.sortOrd, LAMBDA x : x <= Len(activeSeats)),
                             contenderLess) } } : TRUE

determineWinnersAndSettleLocked(w, ch) ==
    IF w.rt.chexuanMode THEN settleChexuanLocked(w, ch)
    ELSE IF Len(activeSeatsLocked(w.rt)) = 0 THEN finishLocked(w)
    ELSE CHOOSE out \in
           { settleResultsLocked(w, results, Len(activeSeatsLocked(w.rt)) > 1, FALSE) :
               results \in { pokerResults(w.rt, ch, activeSeatsLocked(w.rt)) } } : TRUE

advanceRoundLocked(w, ch) ==
    CHOOSE out \in
      { IF t.phase # PhasePlaying THEN [w EXCEPT !.rt = t]
        ELSE IF t.chexuanMode /\ t.round = 3 /\ t.round1Bet /\ ~t.round2Bet
        THEN CHOOSE done \in
               { settleChexuanMangoLocked(v) :
                   v \in { [w EXCEPT !.rt = [t EXCEPT !.phase = PhaseSettling]] } } : TRUE
        ELSE IF t.round >= 3 \/ firstActorSeatLocked(t) = 0
        THEN CHOOSE done \in
               { determineWinnersAndSettleLocked(v, ch) :
                   v \in { [w EXCEPT !.rt = [t EXCEPT !.phase = PhaseSettling,
                                                      !.turnSeat = 0]] } } : TRUE
        ELSE [w EXCEPT !.rt =
                resetTurnTimerLocked(persistRoundLogLocked(
                    [t EXCEPT !.turnSeat = firstActorSeatLocked(t),
                              !.lastRaise = IF t.round = 1 /\ @ = 0 /\ t.basePi > 0
                                            THEN t.basePi ELSE @]))] :
          t \in { [(IF w.rt.phase = PhasePlaying /\ shouldDealThisStageLocked(w.rt)
                    THEN dealCardsLocked(w.rt) ELSE w.rt)
                     EXCEPT !.round = @ + 1, !.roundActed = {}] } } : TRUE

startRoundLocked(w, ch) ==
    LET t == w.rt
    IN CHOOSE out \in
         { advanceRoundLocked(
               [w EXCEPT !.rt = appendLogLocked(
                   [a EXCEPT !.bankerSeat =
                       IF @ = 0 THEN findFirstActiveSeatLocked(a) ELSE @])],
               ch) :
             a \in { applyAntesLocked(
                         [t EXCEPT !.phase = PhasePlaying,
                                   !.round = 0,
                                   !.pot = 0,
                                   !.lastRaise = 0,
                                   !.roundActed = {},
                                   !.firstRaiseDone = FALSE,
                                   !.raisedRound1 = FALSE,
                                   !.raisedRound2 = FALSE,
                                   !.round1Bet = FALSE,
                                   !.round2Bet = FALSE,
                                   !.round2Knock = FALSE,
                                   !.lastAggSeat = 0,
                                   !.tailBigWin = FALSE,
                                   !.seats = [i \in DOMAIN t.seats |->
                                                [t.seats[i] EXCEPT
                                                   !.Bet = 0,
                                                   !.Status = IF @ # "eliminated"
                                                              THEN "playing" ELSE @]],
                                   !.deck = ch.deck]) } } : TRUE

\* ------------------------------------------------------------------------
\* Table runtime: the handlers of the actor
\* ------------------------------------------------------------------------
Nil == ""
ErrTableAccessDenied == "ErrTableAccessDenied"

\* the handlers below that can fail return [rt, err]
Ok(t) == [rt |-> t, err |-> Nil]
FailAfterLog(t, msg) == [rt |-> appendLogLocked(t), err |-> msg]
Fail(t, msg) == [rt |-> t, err |-> msg]

\* a call that takes the chips of the seat and forgets the pot
handleCallLockedOffPot(t, seatIdx) ==
    LET pos == findSeatIdxLocked(t, seatIdx)
        seat == t.seats[pos]
        diff == minInt64(MaxOf(MaxOf(requiredCallAmountLocked(t, seatIdx), t.lastRaise)
                                  - seat.Bet, 0), seat.Chips)
    IN IF pos = 0 THEN Fail(t, "seat not found")
       ELSE Ok(appendLogLocked(markActedLocked(
                 [t EXCEPT !.seats[pos].Chips = @ - diff,
                           !.seats[pos].Bet = @ + diff,
                           !.lastRaise = MaxOf(@, seat.Bet + diff)],
                 seatIdx)))

handleCallLocked(t, seatIdx) ==
    LET pos == findSeatIdxLocked(t, seatIdx)
        seat == t.seats[pos]
    IN IF pos = 0 THEN Fail(t, "seat not found")
       ELSE CHOOSE out \in
              { Ok(appendLogLocked(markActedLocked(
                    [t EXCEPT !.round1Bet = IF diff > 0 /\ t.round = 1 THEN TRUE ELSE @,
                              !.round2Bet = IF diff > 0 /\ t.round = 2 THEN TRUE ELSE @,
                              !.seats[pos].Chips = @ - diff,
                              !.seats[pos].Bet = @ + diff,
                              !.pot = @ + diff,
                              !.lastRaise = MaxOf(@, seat.Bet + diff)],
                    seatIdx))) :
                  diff \in { minInt64(MaxOf(MaxOf(requiredCallAmountLocked(t, seatIdx),
                                                  t.lastRaise) - seat.Bet, 0),
                                      seat.Chips) } } : TRUE

handleKnockBoboLocked(t, seatIdx) ==
    LET pos == findSeatIdxLocked(t, seatIdx)
        seat == t.seats[pos]
        diff == IF seat.Chips > 0 THEN seat.Chips ELSE 0
    IN IF ~t.boboEnabled THEN Fail(t, "knock_bobo disabled")
       ELSE IF pos = 0 THEN Fail(t, "seat not found")
       ELSE Ok(persistRoundLogLocked(appendLogLocked(resetRoundActedLocked(
                [t EXCEPT !.seats[pos].Chips = @ - diff,
                          !.seats[pos].Bet = @ + diff,
                          !.pot = @ + diff,
                          !.lastRaise = seat.Bet + diff,
                          !.lastAggSeat = seatIdx,
                          !.round2Knock = TRUE,
                          !.round2Bet = TRUE,
                          !.raisedRound2 = TRUE],
                seatIdx))))

handleRaiseLocked(t, seatIdx, amount) ==
    LET pos == findSeatIdxLocked(t, seatIdx)
        seat == t.seats[pos]
        diff == amount - seat.Bet
    IN IF t.round = 2 /\ t.boboEnabled /\ ~t.round2Knock THEN handleKnockBoboLocked(t, seatIdx)
       ELSE IF amount <= 0
       THEN (IF t.boboEnabled THEN handleKnockBoboLocked(t, seatIdx)
             ELSE Fail(t, "amount required"))
       ELSE IF t.round = 1 /\ amount < raiseThreshold(t)
       THEN Fail(t, "round1 raise below minimum")
       ELSE IF /\ t.round = 1 /\ t.roundActed = {} /\ seatIdx = firstActorSeatLocked(t)
               /\ t.basePi * 2 > 0 /\ amount # t.basePi * 2
       THEN Fail(t, "first bet in round1 must be 2*basePi")
       ELSE IF amount < minRaiseAmountLocked(t)
       THEN (IF t.boboEnabled THEN handleKnockBoboLocked(t, seatIdx)
             ELSE Fail(t, "amount too low"))
       ELSE IF pos = 0 THEN Fail(t, "seat not found")
       ELSE IF diff <= 0
       THEN (IF t.boboEnabled THEN handleKnockBoboLocked(t, seatIdx)
             ELSE Fail(t, "raise must increase bet"))
       ELSE IF seat.Chips < diff THEN Fail(t, "insufficient chips")
       ELSE Ok(appendLogLocked(resetRoundActedLocked(
                [t EXCEPT !.seats[pos].Chips = @ - diff,
                          !.seats[pos].Bet = amount,
                          !.pot = @ + diff,
                          !.lastRaise = amount,
                          !.lastAggSeat = seatIdx,
                          !.firstRaiseDone = TRUE,
                          !.raisedRound1 = IF t.round = 1 THEN TRUE ELSE @,
                          !.round1Bet = IF t.round = 1 THEN TRUE ELSE @,
                          !.raisedRound2 = IF t.round = 2 THEN TRUE ELSE @,
                          !.round2Bet = IF t.round = 2 THEN TRUE ELSE @],
                seatIdx)))

moveToNextTurnLocked(t) ==
    IF nextActiveAfterLocked(t, t.turnSeat) = 0 THEN t
    ELSE resetTurnTimerLocked([t EXCEPT !.turnSeat = nextActiveAfterLocked(t, t.turnSeat)])

\* what handleTurnActionLocked and handleTurnTimeoutLocked do once the action is
\* applied: settle when one seat is left, else close the round, else pass the turn;
\* always is TRUE for the timeout, which broadcasts whatever the phase
progressLocked(w, ch, always) ==
    IF shouldSettleLocked(w.rt)
    THEN CHOOSE out \in
           { determineWinnersAndSettleLocked(v, ch) :
               v \in { [w EXCEPT !.rt.tailBigWin = IF w.rt.round = 2 /\ w.rt.round2Bet
                                                   THEN TRUE ELSE @,
                                 !.rt.phase = PhaseSettling] } } : TRUE
    ELSE IF shouldAdvanceRoundLocked(w.rt)
    THEN CHOOSE out \in
           { IF v.rt.phase # PhaseSettling THEN broadcastStateLocked(v) ELSE v :
               v \in { advanceRoundLocked(w, ch) } } : TRUE
    ELSE CHOOSE out \in
           { IF always \/ v.rt.phase = PhasePlaying THEN broadcastStateLocked(v) ELSE v :
               v \in { [w EXCEPT !.rt = moveToNextTurnLocked(w.rt)] } } : TRUE

\* the switch of handleTurnActionLocked: the action applied to the runtime
turnActionLocked(t, action, seatIdx, amount) ==
    CASE action = "fold" ->
           Ok(persistRoundLogLocked(appendLogLocked(markActedLocked(
                 markSeatStatusLocked(t, seatIdx, "folded"), seatIdx))))
      [] action = "pass" ->
           IF ~canPassLocked(t, seatIdx) THEN Fail(t, "cannot pass, must call or fold")
           ELSE Ok(persistRoundLogLocked(appendLogLocked(markActedLocked(t, seatIdx))))
      [] action = "call" ->
           CHOOSE out \in
             { IF r.err # Nil THEN r ELSE Ok(persistRoundLogLocked(r.rt)) :
                 r \in { handleCallLocked(t, seatIdx) } } : TRUE
      [] action = "raise" ->
           CHOOSE out \in
             { IF r.err # Nil THEN r ELSE Ok(persistRoundLogLocked(r.rt)) :
                 r \in { handleRaiseLocked(t, seatIdx, amount) } } : TRUE
      [] action = "knock_bobo" -> handleKnockBoboLocked(t, seatIdx)
      [] OTHER -> Fail(t, "unsupported action")

\* the handlers from here on take a world and return it with the answer: [rt, chans, err]
handleTurnActionLocked(w, action, seatIdx, amount, ch) ==
    LET t == w.rt
    IN IF t.phase # PhasePlaying THEN [w EXCEPT !.err = "not in playing phase"]
       ELSE IF t.turnSeat # seatIdx THEN [w EXCEPT !.err = "not your turn"]
       ELSE IF isTurnExpiredLocked(t) THEN [w EXCEPT !.err = "turn timeout"]
       ELSE IF \/ findSeatIdxLocked(t, seatIdx) = 0
               \/ findSeatLocked(t, seatIdx).Status \in {"folded", "eliminated"}
       THEN [w EXCEPT !.err = "invalid seat status"]
       ELSE CHOOSE out \in
              { IF r.err # Nil THEN [w EXCEPT !.rt = r.rt, !.err = r.err]
                ELSE IF action = "knock_bobo" THEN [w EXCEPT !.rt = r.rt]
                ELSE progressLocked([w EXCEPT !.rt = r.rt], ch, FALSE) :
                  r \in { turnActionLocked(t, action, seatIdx, amount) } } : TRUE

handleReadyLocked(w, seatIdx, ch) ==
    LET t == w.rt
        pos == findSeatIdxLocked(t, seatIdx)
    IN IF t.phase # PhaseWaiting /\ t.phase # PhasePlaying THEN [w EXCEPT !.err = "invalid phase"]
       ELSE IF pos # 0 /\ t.seats[pos].Ready THEN w
       ELSE CHOOSE out \in
              { CHOOSE done \in
                  { broadcastStateLocked(v) :
                      v \in { IF allReadyLocked(a) THEN startRoundLocked([w EXCEPT !.rt = a], ch)
                              ELSE [w EXCEPT !.rt = a] } } : TRUE :
                  a \in { IF pos # 0 THEN appendLogLocked([t EXCEPT !.seats[pos].Ready = TRUE])
                          ELSE t } } : TRUE

handleActionLocked(w, userID, action, amount, ch) ==
    CHOOSE out \in
      { IF seatIdx = 0 /\ action # "rejoin" THEN [w EXCEPT !.err = ErrTableAccessDenied]
        ELSE CASE action = "ready" -> handleReadyLocked(w, seatIdx, ch)
               [] action \in {"pass", "call", "raise", "fold", "knock_bobo"} ->
                    handleTurnActionLocked(w, action, seatIdx, amount, ch)
               [] action = "rejoin" -> pushStateLocked(w, userID)
               [] action = "ping" -> pushMessageLocked(w, userID, "pong")
               [] OTHER -> [w EXCEPT !.err = "unsupported action"] :
          seatIdx \in { seatByUser(w.rt, userID) } } : TRUE

handleTurnTimeoutLockedAlwaysFold(w, ch) ==
    LET t == w.rt
    IN IF t.phase # PhasePlaying THEN w
       ELSE CHOOSE out \in
              { progressLocked(v, ch, TRUE) :
                  v \in { [w EXCEPT !.rt =
                             appendLogLocked(markActedLocked(
                                 markSeatStatusLocked(t, t.turnSeat, "folded"),
                                 t.turnSeat))] } } : TRUE

handleTurnTimeoutLocked(w, ch) ==
    LET t == w.rt
    IN IF t.phase # PhasePlaying THEN w
       ELSE CHOOSE out \in
              { progressLocked(v, ch, TRUE) :
                  v \in { [w EXCEPT !.rt =
                             IF canPassLocked(t, t.turnSeat)
                             THEN appendLogLocked(markActedLocked(t, t.turnSeat))
                             ELSE appendLogLocked(markActedLocked(
                                      markSeatStatusLocked(t, t.turnSeat, "folded"),
                                      t.turnSeat))] } } : TRUE

\* handleCommand, kind "subscribe": the channel of connection c replaces whatever
\* channel the user had, and the state is pushed to it
handleSubscribe(w, userID, c) ==
    pushStateLocked(
        [w EXCEPT !.rt.subscribers =
                     [u \in DOMAIN @ \cup {userID} |-> IF u = userID THEN c ELSE @[u]],
                  !.chans[c] = [@ EXCEPT !.user = userID, !.st = "live"]],
        userID)

\* handleCommand, kind "unsubscribe": the channel registered for the user, if any, is
\* removed and closed
handleUnsubscribe(w, userID) ==
    IF userID \notin DOMAIN w.rt.subscribers THEN w
    ELSE [w EXCEPT !.rt.subscribers = [u \in DOMAIN @ \ {userID} |-> @[u]],
                   !.chans[w.rt.subscribers[userID]].closed = TRUE]

\* ------------------------------------------------------------------------
\* Table runtime: inputs
\* ------------------------------------------------------------------------
MaxProbes == 1
MaxLogs == 7

\* every connection is opened by user 1, who is seated by every row below
ConnUser(c) == 1
\* users 1 and 2 are seated by every row below, user 3 is a stranger to them
TableUsers == {1, 2, 3}
TableActions == {"ready", "pass", "call", "raise", "fold", "knock_bobo", "rejoin", "ping",
                 "dance"}
\* the actions that leave the turn where it is however often they are repeated
IdleActions == {"rejoin", "ping", "knock_bobo"}
RaiseAmounts == {0, 20, 300}

\* the tables the runtime is built for: the row of the table (chips lists the chips
\* of the seats, a negative number standing for a seat whose object has no chips
\* key; streak is the mango streak the hands before left on the row), its scene, and
\* the number of websocket connections that will be opened
Deployment(chips, streak, scene, conns) ==
    [row |-> TableRow([s \in DOMAIN chips |-> PlayerJSON(s, chips[s] >= 0, chips[s])], streak),
     scene |-> scene, conns |-> conns]
Deployments ==
    { Deployment(<<100, 100>>, 0, Scene(10, 2, TRUE, TRUE, TRUE), 0),
      Deployment(<<100, 15>>, 0, Scene(10, 2, TRUE, TRUE, TRUE), 0),
      Deployment(<<0 - 1, 0 - 1>>, 0, Scene(10, 2, FALSE, TRUE, TRUE), 0),
      Deployment(<<100, 100>>, 0, Scene(10, 0, FALSE, FALSE, FALSE), 0),
      Deployment(<<10, 10>>, 0, Scene(10, 0, FALSE, FALSE, FALSE), 1),
      Deployment(<<100, 100>>, 3, Scene(10, 2, FALSE, TRUE, TRUE), 0),
      Deployment(<<100, 100>>, 2, Scene(10, 2, TRUE, TRUE, TRUE), 0) }

\* shuffles of the Chexuan deck, given by the cards that get dealt
ChexuanDecks ==
    { <<"RQ", "B5", "B9", "R4", "R8", "B7", "R7", "B8", "R2", "BJ", "R6", "B4">>,
      <<"B10", "RQ", "R10", "R2", "BJ", "R8", "B6", "R4", "R6", "BK", "B5", "B7">>,
      <<"RQ", "RQ", "R2", "R2", "R8", "R8", "B9", "B9", "R4", "R4", "B7", "B7">> }
\* shuffles of the 52-card deck, given by the cards that get dealt
PokerDecks ==
    { <<PokerCard("A", "s"), PokerCard("K", "h"), PokerCard("A", "d"), PokerCard("3", "c"),
        PokerCard("7", "s"), PokerCard("7", "h")>>,
      <<PokerCard("9", "s"), PokerCard("9", "h"), PokerCard("T", "d"), PokerCard("T", "c"),
        PokerCard("2", "s"), PokerCard("J", "h")>> }
\* the orders in which n elements can come out of an unstable sort or a map iteration
SeatOrders(n) ==
    { o \in [1 .. n -> 1 .. n] : \A i, j \in 1 .. n : i # j => o[i] # o[j] }

Chance(deck, sortOrd, shiftOrd, resOrd) ==
    [deck |-> deck, sortOrd |-> sortOrd, shiftOrd |-> shiftOrd, resOrd |-> resOrd]
InOrder == <<1, 2, 3>>
NoChance == Chance(<<>>, InOrder, InOrder, InOrder)

\* the outcomes of chance a step of the actor can depend on: the shuffle when it
\* starts the hand, the orders when it settles one
ChancesOf(before, after) ==
    IF before.phase = PhaseWaiting /\ after.phase # PhaseWaiting
    THEN { Chance(d, InOrder, InOrder, InOrder) :
             d \in IF before.chexuanMode THEN ChexuanDecks ELSE PokerDecks }
    ELSE IF before.phase = PhasePlaying /\ after.phase = PhaseEnded
    THEN IF before.chexuanMode
         THEN { Chance(<<>>, a, b, c) : a \in SeatOrders(Len(before.seats)),
                                        b \in SeatOrders(Len(before.seats)),
                                        c \in SeatOrders(Len(before.seats)) }
         ELSE { Chance(<<>>, a, InOrder, InOrder) : a \in SeatOrders(Len(before.seats)) }
    ELSE { NoChance }

World == [rt |-> rt, chans |-> chans, err |-> Nil]

\* the answers the actor can give to an action command in the current state, one per
\* outcome of chance
Answers(userID, action, amount) ==
    { handleActionLocked(World, userID, action, amount, ch) :
        ch \in ChancesOf(rt, handleActionLocked(World, userID, action, amount, NoChance).rt) }

\* ------------------------------------------------------------------------
\* Table runtime: actions
\* ------------------------------------------------------------------------
tableFrame == <<settleVars, settleCfg, caseVars, matchVars, registryVars, actorVars>>

\* a bobo table that a websocket client watches
WatchedDeployments == { Deployment(<<30, 30>>, 0, Scene(10, 2, TRUE, TRUE, TRUE), 1) }

InitTableOf(deployments) ==
    /\ \E d \in deployments :
         /\ rt = newTableRuntime(d.row, d.scene, 1)
         /\ chans = [c \in 1 .. d.conns |->
                       [user |-> 0, st |-> "free", buf |-> <<>>, closed |-> FALSE, last |-> 0]]
         /\ tableRow = [MangoStreak |-> d.row.MangoStreak, settled |-> "no", request |-> <<>>]
    /\ probes = 0
    /\ SettleAbsent
    /\ CaseAbsent
    /\ MatchAbsent
    /\ RegistryAbsent
    /\ ActorAbsent

InitTable == InitTableOf(Deployments)
InitWatched == InitTableOf(WatchedDeployments)

\* HandleAction: the actor takes an action command off its queue and answers it
TableCommand(userID, action, amount) ==
    /\ action \in IdleActions => probes < MaxProbes
    /\ \E r \in Answers(userID, action, amount) :
         /\ r.rt.logs <= MaxLogs
         /\ rt' = r.rt
         /\ chans' = r.chans
    /\ probes' = IF action \in IdleActions THEN probes + 1 ELSE probes
    /\ UNCHANGED <<tableRow, tableFrame>>

\* a websocket client connects: Subscribe makes a channel and the actor registers it
TableSubscribe(c) ==
    /\ chans[c].st = "free"
    /\ \E r \in { handleSubscribe(World, ConnUser(c), c) } :
         /\ rt' = r.rt
         /\ chans' = r.chans
    /\ UNCHANGED <<tableRow, probes, tableFrame>>

\* the read pump of a client ends: Unsubscribe for its user, and the connection is
\* closed with whatever its channel still held
TableUnsubscribe(c) ==
    /\ chans[c].st = "live"
    /\ \E r \in { handleUnsubscribe(World, chans[c].user) } :
         /\ rt' = r.rt
         /\ chans' = [r.chans EXCEPT ![c] = [@ EXCEPT !.st = "gone", !.buf = <<>>]]
    /\ UNCHANGED <<tableRow, probes, tableFrame>>

\* the write pump of a client takes the next message off its channel and sends it;
\* last is the seq of the message the client received last
TableDeliver(c) ==
    /\ chans[c].st = "live"
    /\ chans[c].buf # <<>>
    /\ probes < MaxProbes
    /\ chans' = [chans EXCEPT ![c].buf = Tail(@), ![c].last = Head(chans[c].buf).Seq]
    /\ probes' = probes + 1
    /\ UNCHANGED <<rt, tableRow, tableFrame>>

\* the deadline of the turn passes
TableDeadline ==
    /\ rt.timer = "armed"
    /\ rt' = [rt EXCEPT !.timer = "expired"]
    /\ UNCHANGED <<chans, tableRow, probes, tableFrame>>

\* the actor takes the tick of the turn timer
TableTimeout ==
    /\ rt.timer = "expired"
    /\ \E ch \in ChancesOf(rt, handleTurnTimeoutLocked(World, NoChance).rt) :
         \E r \in { handleTurnTimeoutLocked(World, ch) } :
            /\ r.rt.logs <= MaxLogs
            /\ rt' = r.rt
            /\ chans' = r.chans
    /\ UNCHANGED <<tableRow, probes, tableFrame>>

\* handleRuntimeFinish, started by the finish of the hand: the results of the runtime
\* (zero results for every player when it has none) go to SettleMatch, and when that
\* succeeds the streak of the runtime is written to the Table row; when SettleMatch
\* returns an error, from its validation or from the database, nothing is written
playersSnapshot(t) ==
    LET seated == SelectSeq(t.seats, LAMBDA s : s.UserID # 0)
    IN [i \in DOMAIN seated |-> seated[i].UserID]

handleRuntimeFinish(t, row, dbErr) ==
    LET results == IF Len(t.SettlementResults) > 0 THEN t.SettlementResults
                   ELSE [i \in DOMAIN playersSnapshot(t) |->
                           PlayerResult(playersSnapshot(t)[i], 0)]
        req == SettlementRequest(t.matchID, 0, results)
    IN IF validateRequest(req) # ErrNone \/ dbErr
       THEN [row EXCEPT !.settled = "failed", !.request = results]
       ELSE [MangoStreak |-> t.mangoStreak, settled |-> "done", request |-> results]

\* the finalizer on a database that answers every statement
RuntimeFinish ==
    /\ rt.finished > 0
    /\ tableRow.settled = "no"
    /\ tableRow' = handleRuntimeFinish(rt, tableRow, FALSE)
    /\ UNCHANGED <<rt, chans, probes, tableFrame>>

\* the finalizer on a database that may fail a statement of the transaction
RuntimeFinishOrError ==
    /\ rt.finished > 0
    /\ tableRow.settled = "no"
    /\ \E dbErr \in BOOLEAN : tableRow' = handleRuntimeFinish(rt, tableRow, dbErr)
    /\ UNCHANGED <<rt, chans, probes, tableFrame>>

NextTable ==
    \/ \E u \in TableUsers, a \in TableActions :
          \E amount \in (IF a = "raise" THEN RaiseAmounts ELSE {0}) : TableCommand(u, a, amount)
    \/ \E c \in DOMAIN chans : TableSubscribe(c)
    \/ \E c \in DOMAIN chans : TableUnsubscribe(c)
    \/ \E c \in DOMAIN chans : TableDeliver(c)
    \/ TableDeadline
    \/ TableTimeout
    \/ RuntimeFinish

SpecTable == InitTable /\ [][NextTable]_vars

\* the watched table, played without raises and without probes of the connection
WatchedActions == {"ready", "pass", "call", "fold", "knock_bobo"}
NextWatched ==
    \/ \E u \in TableUsers, a \in WatchedActions : TableCommand(u, a, 0)
    \/ \E c \in DOMAIN chans : TableSubscribe(c)
    \/ \E c \in DOMAIN chans : TableUnsubscribe(c)
    \/ \E c \in DOMAIN chans : TableDeliver(c)
    \/ TableDeadline
    \/ TableTimeout
    \/ RuntimeFinishOrError

SpecWatched == InitWatched /\ [][NextWatched]_vars

\* ------------------------------------------------------------------------
\* Table runtime: properties
\* ------------------------------------------------------------------------
\* the users that have a seat other than the seat whose turn it is
OffTurnUsers == {u \in TableUsers : seatByUser(rt, u) # 0 /\ seatByUser(rt, u) # rt.turnSeat}
AmountsOf(action) == IF action = "raise" THEN RaiseAmounts ELSE {0}

\* C3: while a hand is being played, every action other than rejoin and ping (ready,
\* fold, pass, call, raise, knock_bobo) that a user whose seat is not the turn seat
\* submits is answered with an error and leaves phase, round, turnSeat, lastRaise, pot,
\* seats and the acted set as they were.
C3_OffTurnRejected ==
    rt.phase = PhasePlaying =>
      \A u \in OffTurnUsers, a \in {"ready", "fold", "pass", "call", "raise", "knock_bobo"} :
        \A amount \in AmountsOf(a) : \A r \in Answers(u, a, amount) :
           /\ r.err # Nil
           /\ r.rt.phase = rt.phase /\ r.rt.round = rt.round /\ r.rt.turnSeat = rt.turnSeat
           /\ r.rt.lastRaise = rt.lastRaise /\ r.rt.pot = rt.pot /\ r.rt.seats = rt.seats
           /\ r.rt.roundActed = rt.roundActed

\* C4: in every reachable state, every action command that the actor would answer with
\* an error leaves the runtime exactly as it was (seq and logs included) and puts no
\* message on the channel of any subscriber.
C4_ErrorsChangeNothing ==
    \A u \in TableUsers, a \in TableActions :
      \A amount \in AmountsOf(a) : \A r \in Answers(u, a, amount) :
         r.err # Nil => r.rt = rt /\ r.chans = chans

\* C4 witness: a hand is being played in front of a subscriber, and the raise of the
\* seat whose turn it is is refused for want of chips
C4_Witness ==
    /\ rt.phase = PhasePlaying
    /\ \E c \in DOMAIN chans : chans[c].st = "live"
    /\ \E u \in TableUsers :
         /\ seatByUser(rt, u) = rt.turnSeat
         /\ \E r \in Answers(u, "raise", 300) : r.err = "insufficient chips"
    /\ \E u \in TableUsers : \E r \in Answers(u, "pass", 0) : r.err = "not your turn"

PhaseRank(p) == CASE p = PhaseWaiting -> 0 [] p = PhasePlaying -> 1
                  [] p = PhaseSettling -> 2 [] p = PhaseEnded -> 3

\* C5: no step of the table moves its phase backwards along waiting, playing, settling,
\* ended, and no step taken while the phase is ended (action, timeout, subscribe,
\* unsubscribe) changes phase, round, turnSeat, seats, pot or the settlement results.
C5_PhaseForward ==
    [][ /\ PhaseRank(rt'.phase) >= PhaseRank(rt.phase)
        /\ rt.phase = PhaseEnded =>
             /\ rt'.phase = PhaseEnded
             /\ rt'.round = rt.round /\ rt'.turnSeat = rt.turnSeat /\ rt'.seats = rt.seats
             /\ rt'.pot = rt.pot /\ rt'.SettlementResults = rt.SettlementResults
      ]_vars

\* C5 witness: a client subscribed to a table whose hand had ended with results: the
\* only message on its channel is the state pushed to it, the latest of the table
C5_Witness ==
    /\ rt.phase = PhaseEnded
    /\ rt.SettlementResults # <<>>
    /\ probes = 0
    /\ \E c \in DOMAIN chans :
         /\ chans[c].st = "live"
         /\ Len(chans[c].buf) = 1
         /\ chans[c].buf[1].Seq = rt.seq
\* C12: the seq values of the messages a subscriber is sent are strictly increasing in
\* delivery order: on every channel the messages waiting are in strictly increasing seq
\* order and all of them are above the seq of the message delivered last, dropped
\* messages leaving gaps only.
C12_SeqIncreasing ==
    \A c \in DOMAIN chans :
       LET buf == chans[c].buf
       IN /\ \A i, j \in DOMAIN buf : i < j => buf[i].Seq < buf[j].Seq
          /\ \A i \in DOMAIN buf : chans[c].last < buf[i].Seq /\ buf[i].Seq <= rt.seq

\* C12 witness: a subscriber has received a state message and has two more waiting,
\* with a gap between their seq values
C12_Witness ==
    \E c \in DOMAIN chans :
       /\ chans[c].last > 0
       /\ Len(chans[c].buf) >= 2
       /\ chans[c].buf[1].Type = "state" /\ chans[c].buf[2].Type = "state"
       /\ chans[c].buf[2].Seq > chans[c].buf[1].Seq + 1
\* the hand of an ended table was a liu-ju: Chexuan mode, round 2 was closed after a
\* bet in round 1 and none in round 2
LiuJuEnded ==
    /\ rt.phase = PhaseEnded /\ rt.chexuanMode /\ rt.round = 3
    /\ rt.round1Bet /\ ~rt.round2Bet

\* C13: in every state the mango streak of the runtime and the streak stored on the
\* Table row are in {0, 1, 2, 3}.
C13_StreakBounds ==
    /\ rt.mangoStreak \in 0 .. 3
    /\ tableRow.MangoStreak \in 0 .. 3

\* C13 witness: a table that came with streak 3 ended its hand as a liu-ju and the
\* finalizer stored the streak, still 3
C13_Witness ==
    /\ LiuJuEnded
    /\ tableRow.settled = "done"
    /\ tableRow.MangoStreak = 3
    /\ rt.mangoStreak = 3

ActiveSeatCount == Len(activeSeatsLocked(rt))

\* C15: after a hand that ended because all seats but one folded, the streak is 0
\* (the liu-ju rule does not fire, so the streak is not incremented).
C15_FoldWinResetsStreak ==
    (rt.phase = PhaseEnded /\ ActiveSeatCount = 1 /\ rt.SettlementResults # <<>>)
      => rt.mangoStreak = 0

\* the step is the actor handling the tick of the turn timer: the turn had expired and
\* an entry was added to the log (commands are refused once the turn has expired)
TimeoutStep == rt.timer = "expired" /\ rt.phase = PhasePlaying /\ rt'.logs = rt.logs + 1
StatusOf(t, seatIdx) == findSeatLocked(t, seatIdx).Status
NetOf(results, userID) ==
    SumSeq([i \in DOMAIN results |->
              IF results[i].UserID = userID THEN results[i].NetPoints ELSE 0])

LedgerHands ==
    { <<"RQ", "RQ", "B9", "R4">>, <<"R2", "R2", "R8", "B4">>, <<"B8", "B8", "R7", "B7">>,
      <<"B10", "R10", "BJ", "B6">>, <<"R8", "BJ", "B5", "R4">>, <<"RQ", "B8", "R3">>,
      <<"R6", "B5">> }
LedgerBets == {10, 30, 80}
LedgerStreaks == {0, 1, 3}
LedgerSeatCounts == {2, 3}

LedgerSeat(i, cards, bet, folded) ==
    [SeatState(i, i, 0) EXCEPT !.cards = cards, !.Bet = bet,
                               !.Status = IF folded THEN "folded" ELSE "playing"]

\* the seats of a hand that is being settled: every seat has bet at least the ante (a
\* folded seat, which holds its first two cards, just the ante), at least one seat has
\* not folded, and the first seat has bet 30
LedgerCases ==
    UNION { { [mangoStreak |-> k, basePi |-> 10, seats |-> seats] :
                k \in LedgerStreaks,
                seats \in { f \in [1 .. n -> { s \in [cards : LedgerHands, Bet : LedgerBets,
                                                     folded : BOOLEAN] :
                                                 s.folded => s.Bet = 10 }] :
                              /\ \A i, j \in 1 .. n : i # j => f[i].cards # f[j].cards
                              /\ \E i \in 1 .. n : ~f[i].folded
                              /\ \A i \in 1 .. n : f[i].folded => f[i].cards = <<"R6", "B5">>
                              /\ f[1].Bet = 30 } } :
            n \in LedgerSeatCounts }

\* the participants of a case in seat order
LedgerParticipants(c) ==
    [i \in DOMAIN c.seats |->
        chexuanPlayer(LedgerSeat(i, c.seats[i].cards, c.seats[i].Bet, c.seats[i].folded))]

InitLedger ==
    /\ caseIn \in LedgerCases
    /\ caseOut = <<>>
    /\ SettleAbsent
    /\ TableAbsent
    /\ MatchAbsent
    /\ RegistryAbsent
    /\ ActorAbsent

\* the participants are sorted and the pairwise ledger is computed; sortOrd and shiftOrd
\* are the orders the unstable sort and the map iteration happen to take
LedgerSettle(sortOrd, shiftOrd) ==
    /\ caseOut = <<>>
    /\ \E ps \in { SortSlice(LedgerParticipants(caseIn), sortOrd, chexuanLess) } :
         caseOut' = [top |-> ps[1],
                     ledger |-> chexuanLedger(caseIn, ps,
                                              [i \in DOMAIN ps |-> ps[shiftOrd[i]].UserID])]
    /\ UNCHANGED <<caseIn, settleVars, settleCfg, tableVars, matchVars, registryVars,
                   actorVars>>

NextLedger ==
    \E sortOrd, shiftOrd \in SeatOrders(Len(caseIn.seats)) : LedgerSettle(sortOrd, shiftOrd)

SpecLedger == InitLedger /\ [][NextLedger]_vars

\* C16: in every ledger of the pairwise settlement the net points of the top-sorted
\* participant are at least -(mangoStreak * 2 * basePi + basePi), mangoStreak being
\* the streak the hand started with.
C16_TopLossCapped ==
    caseOut # <<>> =>
       caseOut.ledger[caseOut.top.UserID]
          >= 0 - (caseIn.mangoStreak * 2 * caseIn.basePi + caseIn.basePi)

\* C16 witness: three seats showed their cards, the top-sorted one with the smallest
\* bet, and points moved between them
C16_Witness ==
    /\ caseOut # <<>>
    /\ Len(caseIn.seats) = 3
    /\ \A i \in DOMAIN caseIn.seats : ~caseIn.seats[i].folded
    /\ \A i \in DOMAIN caseIn.seats : caseIn.seats[i].Bet >= caseIn.seats[caseOut.top.SeatIdx].Bet
    /\ \E u \in DOMAIN caseOut.ledger : caseOut.ledger[u] < 0 - caseIn.basePi
    /\ caseOut.ledger[caseOut.top.UserID] > 0

\* ------------------------------------------------------------------------
\* Matchmaker (internal/service/match): data
\* ------------------------------------------------------------------------
NumJoinCalls == 3
MaxClock == 4
MaxTables == 1

MatchUsers == {1, 2}
JoinProcs == 1 .. NumJoinCalls

\* defaultConfig, the durations in minutes (the ten seconds of QueueLockTTL count as one)
QueueLockTTL == 1
QueueMemberTTL == 3
QueueTimeout == 3
MatchedLockTTL == 1
MatchedNotifyTTL == 5
CandidateMultiplier == 3

ErrInvalidBuyIn == "ErrInvalidBuyIn"
ErrInsufficientBalance == "ErrInsufficientBalance"
ErrAlreadyInQueue == "ErrAlreadyInQueue"
ErrQueueProcessing == "ErrQueueProcessing"

\* a Redis key that is not set; a key that is set carries the time it expires
NoKey == [exp |-> 0]
Key(val, ttl) == [exp |-> now + ttl, val |-> val]
Live(k) == k.exp > now

\* An address string is written as the numbers it spells: four numbers for a dotted
\* IPv4 address, eight groups for an IPv6 address, <<>> for the empty string; any other
\* sequence is a string net.ParseIP rejects.
IPv4(a, b, c, d) == <<a, b, c, d>>
NoIP == <<>>

\* netutil.Subnet24: "a.b.c" of an address that is or maps to IPv4, "" (here <<>>) otherwise
Subnet24(ip) ==
    LET dotted == Len(ip) = 4 /\ \A i \in 1 .. 4 : ip[i] \in 0 .. 255
        mapped == /\ Len(ip) = 8
                  /\ \A i \in 1 .. 8 : ip[i] \in 0 .. 65535
                  /\ \A i \in 1 .. 5 : ip[i] = 0
                  /\ ip[6] = 65535
        ipv4 == IF dotted THEN ip
                ELSE IF mapped
                     THEN <<ip[7] \div 256, ip[7] % 256, ip[8] \div 256, ip[8] % 256>>
                     ELSE <<>>
    IN IF ipv4 = <<>> THEN <<>> ELSE SubSeq(ipv4, 1, 3)

SameSubnet24(ip1, ip2) ==
    IF ip1 = <<>> \/ ip2 = <<>> THEN FALSE ELSE Subnet24(ip1) = Subnet24(ip2)

\* geo.HaversineDistance in metres. Coordinates are in thousandths of a degree and the
\* clients of the model stand on one meridian, where the great-circle distance is the
\* difference of latitude times the length of a thousandth of a degree (111 m).
HaversineDistance(lat1, lng1, lat2, lng2) ==
    111 * (IF lat1 > lat2 THEN lat1 - lat2 ELSE lat2 - lat1)

MatchScene(seatCount, minIn, maxIn, distanceThresholdM) ==
    [ID |-> 10, SeatCount |-> seatCount, MinIn |-> minIn, MaxIn |-> maxIn,
     DistanceThresholdM |-> distanceThresholdM, Status |-> "enabled"]
Client(lat, lng, ip, balance) ==
    [GPSLat |-> lat, GPSLng |-> lng, IP |-> ip, BalanceAvailable |-> balance]
MatchConfig(scene, skip, clients) ==
    [scene |-> scene, found |-> TRUE, SkipLocationValidation |-> skip, clients |-> clients]

\* the scene, whether the scenes table holds its row, the feature flag and, for users 1
\* and 2, what the client sends and the balance loadWalletBalance reads; the fourth
\* deployment has the scene disabled, the fifth has no row for it
MatchConfigs ==
    { MatchConfig(MatchScene(2, 100, 0, 0), FALSE,
                  <<Client(0, 0, IPv4(1, 2, 3, 4), 1000), Client(0, 0, IPv4(5, 6, 7, 8), 1000)>>),
      MatchConfig(MatchScene(2, 100, 500, 500), FALSE,
                  <<Client(30000, 104000, IPv4(1, 2, 3, 4), 500), Client(30010, 104000, IPv4(2, 2, 3, 4), 500)>>),
      MatchConfig(MatchScene(2, 100, 0, 0), FALSE,
                  <<Client(0, 0, IPv4(1, 2, 3, 4), 500), Client(0, 0, IPv4(1, 2, 3, 99), 500)>>),
      [MatchConfig(MatchScene(2, 100, 0, 0), FALSE,
                   <<Client(0, 0, IPv4(1, 2, 3, 4), 1000), Client(0, 0, IPv4(5, 6, 7, 8), 1000)>>)
         EXCEPT !.scene.Status = "disabled"],
      [MatchConfig(MatchScene(2, 100, 0, 0), FALSE,
                   <<Client(0, 0, IPv4(1, 2, 3, 4), 1000), Client(0, 0, IPv4(5, 6, 7, 8), 1000)>>)
         EXCEPT !.found = FALSE] }

\* loadScene: the row of the scene, <<>> (nil) when the table has none
loadScene(sceneID) ==
    IF matchCfg.found /\ matchCfg.scene.ID = sceneID THEN matchCfg.scene ELSE <<>>

\* the join calls: users 1 and 2 take turns, each joins with a buy-in of 500 first and
\* of 600 after that
JoinUser(p) == ((p - 1) % 2) + 1
JoinBuyIn(p) == IF p <= 2 THEN 500 ELSE 600

JoinQueueRequest(u, buyIn) ==
    [UserID |-> u, SceneID |-> matchCfg.scene.ID, BuyIn |-> buyIn,
     GPSLat |-> matchCfg.clients[u].GPSLat, GPSLng |-> matchCfg.clients[u].GPSLng,
     IP |-> matchCfg.clients[u].IP]

queueMember(req, walletBalance) ==
    [UserID |-> req.UserID, SceneID |-> req.SceneID, BuyIn |-> req.BuyIn,
     GPSLat |-> req.GPSLat, GPSLng |-> req.GPSLng, IP |-> req.IP,
     BalanceSnapshot |-> walletBalance, JoinedAt |-> now]

\* ------------------------------------------------------------------------
\* Matchmaker: selection (matcher.go)
\* ------------------------------------------------------------------------
shouldEnforceLocation(scene) ==
    IF scene.DistanceThresholdM <= 0 THEN FALSE
    ELSE IF matchCfg.SkipLocationValidation THEN FALSE
    ELSE TRUE

hasValidLocation(member) == member.GPSLat # 0 /\ member.GPSLng # 0

passesDistance(scene, selected, candidate) ==
    IF ~shouldEnforceLocation(scene) THEN TRUE
    ELSE \A i \in DOMAIN selected :
            /\ hasValidLocation(selected[i]) /\ hasValidLocation(candidate)
            /\ ~(HaversineDistance(selected[i].GPSLat, selected[i].GPSLng,
                                   candidate.GPSLat, candidate.GPSLng)
                 < scene.DistanceThresholdM)

\* variant of passesNetwork that compares the candidate with the first selected player only
passesNetworkFirstOnly(selected, candidate) ==
    selected = <<>> \/ ~SameSubnet24(selected[1].IP, candidate.IP)

passesNetwork(selected, candidate) ==
    \A i \in DOMAIN selected : ~SameSubnet24(selected[i].IP, candidate.IP)

RECURSIVE selectFrom(_, _, _, _)
selectFrom(scene, candidates, i, selected) ==
    IF i > Len(candidates) \/ Len(selected) >= scene.SeatCount THEN selected
    ELSE LET candidate == candidates[i]
             skip == \/ candidate.BalanceSnapshot < scene.MinIn
                     \/ (shouldEnforceLocation(scene) /\ ~hasValidLocation(candidate))
                     \/ ~passesDistance(scene, selected, candidate)
                     \/ ~passesNetwork(selected, candidate)
         IN selectFrom(scene, candidates, i + 1,
                       IF skip THEN selected ELSE Append(selected, candidate))

selectPlayers(scene, candidates) == selectFrom(scene, candidates, 1, <<>>)

\* ------------------------------------------------------------------------
\* Matchmaker: the calls and the composer
\* ------------------------------------------------------------------------
matchFrame == <<settleVars, settleCfg, tableVars, caseVars, registryVars, actorVars>>

JoinCall(pc, req, balance, ret) == [pc |-> pc, req |-> req, balance |-> balance, ret |-> ret]
NoRequest == [UserID |-> 0, SceneID |-> 0, BuyIn |-> 0, GPSLat |-> 0, GPSLng |-> 0, IP |-> NoIP]
ComposerIdle == [pc |-> "idle", players |-> <<>>, idx |-> 0]

\* a join call of the user has been entered and has not returned
JoinInFlight(u) ==
    \E p \in DOMAIN joinCalls :
       joinCalls[p].pc \notin {"idle", "done"} /\ joinCalls[p].req.UserID = u

\* ZRANGE key 0 n-1: the members by ascending score, equal scores by member string
ZRange(q, n) ==
    LET S == {u \in DOMAIN q : q[u] # 0}
        rank(u) == Cardinality({v \in S : q[v] < q[u] \/ (q[v] = q[u] /\ v < u)})
    IN [k \in 1 .. minInt64(n, Cardinality(S)) |-> CHOOSE u \in S : rank(u) = k - 1]

\* GetStatus (service.go 174-212)
GetStatus(u) ==
    IF Live(notify[u]) THEN "matched"
    ELSE IF queue[u] # 0 THEN "queued"
    ELSE "idle"

\* JoinQueue up to its first Redis command: scene, buy-in and balance checks, then ZSCORE
JoinStart(p) ==
    /\ joinCalls[p].pc = "idle"
    /\ LET u == JoinUser(p)
           req == JoinQueueRequest(u, JoinBuyIn(p))
           scene == loadScene(req.SceneID)
           walletBalance == matchCfg.clients[u].BalanceAvailable
           ret == IF scene = <<>> THEN ErrSceneNotFound
                  ELSE IF req.BuyIn < scene.MinIn \/ (scene.MaxIn > 0 /\ req.BuyIn > scene.MaxIn)
                  THEN ErrInvalidBuyIn
                  ELSE IF walletBalance < req.BuyIn THEN ErrInsufficientBalance
                  ELSE IF queue[u] # 0 THEN ErrAlreadyInQueue
                  ELSE ErrNone
       IN joinCalls' = [joinCalls EXCEPT ![p] =
                          JoinCall(IF ret = ErrNone THEN "setnx" ELSE "done", req,
                                   walletBalance, ret)]
    /\ cancelled' = cancelled \ {JoinUser(p)}
    /\ UNCHANGED <<matchCfg, now, queue, members, qlock, held, notify, tables, composer,
                   matchFrame>>

\* SETNX queue:lock:{user} with QueueLockTTL
JoinSetNX(p) ==
    /\ joinCalls[p].pc = "setnx"
    /\ LET u == joinCalls[p].req.UserID
           gotLock == ~(qlock[u] > now)
       IN IF ~gotLock
          THEN /\ joinCalls' = [joinCalls EXCEPT ![p].pc = "done", ![p].ret = ErrQueueProcessing]
               /\ UNCHANGED qlock
          ELSE /\ joinCalls' = [joinCalls EXCEPT ![p].pc = "save"]
               /\ qlock' = [qlock EXCEPT ![u] = now + QueueLockTTL]
    /\ UNCHANGED <<matchCfg, now, queue, members, held, notify, tables, composer, cancelled,
                   matchFrame>>

\* saveQueueMember: SET queue:member:{scene}:{user} with QueueMemberTTL
JoinSave(p) ==
    /\ joinCalls[p].pc = "save"
    /\ LET c == joinCalls[p]
       IN members' = [members EXCEPT ![c.req.UserID] =
                        Key(queueMember(c.req, c.balance), QueueMemberTTL)]
    /\ joinCalls' = [joinCalls EXCEPT ![p].pc = "zadd"]
    /\ UNCHANGED <<matchCfg, now, queue, qlock, held, notify, tables, composer, cancelled,
                   matchFrame>>

\* ZADD queue:{scene} now user: adds the member or replaces its score
JoinZAdd(p) ==
    /\ joinCalls[p].pc = "zadd"
    /\ queue' = [queue EXCEPT ![joinCalls[p].req.UserID] = now]
    /\ joinCalls' = [joinCalls EXCEPT ![p].pc = "unlock"]
    /\ UNCHANGED <<matchCfg, now, members, qlock, held, notify, tables, composer, cancelled,
                   matchFrame>>

\* the deferred DEL queue:lock:{user}, then the return
JoinUnlock(p) ==
    /\ joinCalls[p].pc = "unlock"
    /\ qlock' = [qlock EXCEPT ![joinCalls[p].req.UserID] = 0]
    /\ joinCalls' = [joinCalls EXCEPT ![p].pc = "done"]
    /\ UNCHANGED <<matchCfg, now, queue, members, held, notify, tables, composer, cancelled,
                   matchFrame>>

\* the keys CancelQueue leaves: ZREM, DEL of the snapshot, DEL of the notice
cancelKeys(keys, u) ==
    [queue |-> [keys.queue EXCEPT ![u] = 0],
     members |-> [keys.members EXCEPT ![u] = NoKey],
     notify |-> [keys.notify EXCEPT ![u] = NoKey]]

RECURSIVE cancelAll(_, _)
cancelAll(keys, users) ==
    IF users = <<>> THEN keys ELSE cancelAll(cancelKeys(keys, Head(users)), Tail(users))

\* cleanupExpiredQueue: CancelQueue for every member whose score is QueueTimeout old
cleanupExpiredQueue(keys) ==
    IF QueueTimeout <= 0 THEN keys
    ELSE LET deadline == now - QueueTimeout
         IN cancelAll(keys, SortedSeq({u \in MatchUsers :
                                          keys.queue[u] # 0 /\ keys.queue[u] <= deadline}))

\* CancelQueue called by the user; its three commands are taken as one step
CancelQueue(u) ==
    /\ LET keys == cancelKeys([queue |-> queue, members |-> members, notify |-> notify], u)
       IN /\ queue' = keys.queue
          /\ members' = keys.members
          /\ notify' = keys.notify
    /\ cancelled' = IF JoinInFlight(u) THEN cancelled ELSE cancelled \cup {u}
    /\ UNCHANGED <<matchCfg, now, qlock, held, tables, joinCalls, composer, matchFrame>>

candidateLimit(scene) ==
    IF CandidateMultiplier <= 0 THEN scene.SeatCount * 2
    ELSE scene.SeatCount * CandidateMultiplier

\* tryCompose up to the call of composeTable: cleanup, ZRANGE, snapshots, selection;
\* maxTables is the number of tables after which the ticks are no longer followed
ComposerTickUpTo(maxTables) ==
    /\ composer.pc = "idle"
    /\ matchCfg.found
    /\ Len(tables) < maxTables
    /\ LET scene == matchCfg.scene
           keys == cleanupExpiredQueue([queue |-> queue, members |-> members,
                                        notify |-> notify])
           ids == ZRange(keys.queue, candidateLimit(scene))
           found == SelectSeq(ids, LAMBDA u : Live(keys.members[u]))
           candidates == [i \in DOMAIN found |-> keys.members[found[i]].val]
           selected == IF Len(ids) < scene.SeatCount THEN <<>>
                       ELSE selectPlayers(scene, candidates)
       IN /\ queue' = keys.queue
          /\ members' = keys.members
          /\ notify' = keys.notify
          /\ composer' = IF Len(selected) < scene.SeatCount THEN ComposerIdle
                         ELSE [pc |-> "remove", players |-> selected, idx |-> 1]
    /\ UNCHANGED <<matchCfg, now, qlock, held, tables, joinCalls, cancelled, matchFrame>>

ComposerTick == ComposerTickUpTo(MaxTables)

\* composeTable, one turn of its first loop: ZREM, and if the member was still queued
\* DEL of the snapshot and SET of the lock with MatchedLockTTL
ComposerRemove ==
    /\ composer.pc = "remove"
    /\ LET u == composer.players[composer.idx].UserID
           removed == IF queue[u] # 0 THEN 1 ELSE 0
       IN IF removed = 0
          THEN /\ composer' = ComposerIdle
               /\ UNCHANGED <<queue, members, qlock, held>>
          ELSE /\ queue' = [queue EXCEPT ![u] = 0]
               /\ members' = [members EXCEPT ![u] = NoKey]
               /\ qlock' = [qlock EXCEPT ![u] = now + MatchedLockTTL]
               /\ held' = [held EXCEPT ![u] = now + MatchedLockTTL]
               /\ composer' = IF composer.idx < Len(composer.players)
                              THEN [composer EXCEPT !.idx = @ + 1]
                              ELSE [composer EXCEPT !.pc = "create"]
    /\ UNCHANGED <<matchCfg, now, notify, tables, joinCalls, cancelled, matchFrame>>

\* the Table row createTableAndMatch inserts (the Match row carries its ids only)
createTableAndMatch(scene, players) ==
    [SceneID |-> scene.ID, Status |-> "waiting", SeatCount |-> scene.SeatCount,
     row |-> TableRow([seat \in 1 .. Len(players) |->
                          PlayerJSON(players[seat].UserID, FALSE, 0)], 0),
     players |-> players]

ComposerCreate ==
    /\ composer.pc = "create"
    /\ tables' = Append(tables, createTableAndMatch(matchCfg.scene, composer.players))
    /\ composer' = [composer EXCEPT !.pc = "notify"]
    /\ UNCHANGED <<matchCfg, now, queue, members, qlock, held, notify, joinCalls, cancelled,
                   matchFrame>>

\* composeTable, its second loop: SET match:pending:{user} with MatchedNotifyTTL
ComposerNotify ==
    /\ composer.pc = "notify"
    /\ LET seated == {composer.players[i].UserID : i \in DOMAIN composer.players}
           payload == [SceneID |-> matchCfg.scene.ID, TableID |-> Len(tables),
                       MatchID |-> Len(tables)]
       IN notify' = [u \in MatchUsers |->
                        IF u \in seated THEN Key(payload, MatchedNotifyTTL) ELSE notify[u]]
    /\ composer' = ComposerIdle
    /\ UNCHANGED <<matchCfg, now, queue, members, qlock, held, tables, joinCalls, cancelled,
                   matchFrame>>

\* a minute passes; Redis drops the keys that expire
Tick ==
    /\ now < MaxClock
    /\ now' = now + 1
    /\ members' = [u \in MatchUsers |-> IF members[u].exp > now + 1 THEN members[u] ELSE NoKey]
    /\ notify' = [u \in MatchUsers |-> IF notify[u].exp > now + 1 THEN notify[u] ELSE NoKey]
    /\ qlock' = [u \in MatchUsers |-> IF qlock[u] > now + 1 THEN qlock[u] ELSE 0]
    /\ held' = [u \in MatchUsers |-> IF held[u] > now + 1 THEN held[u] ELSE 0]
    /\ UNCHANGED <<matchCfg, queue, tables, joinCalls, composer, cancelled, matchFrame>>

InitMatchOf(configs, procs) ==
    /\ matchCfg \in configs
    /\ now = 1
    /\ queue = [u \in MatchUsers |-> 0]
    /\ members = [u \in MatchUsers |-> NoKey]
    /\ qlock = [u \in MatchUsers |-> 0]
    /\ held = [u \in MatchUsers |-> 0]
    /\ notify = [u \in MatchUsers |-> NoKey]
    /\ tables = <<>>
    /\ joinCalls = [p \in procs |-> JoinCall("idle", NoRequest, 0, ErrNone)]
    /\ composer = ComposerIdle
    /\ cancelled = {}
    /\ SettleAbsent
    /\ TableAbsent
    /\ CaseAbsent
    /\ RegistryAbsent
    /\ ActorAbsent

InitMatch == InitMatchOf(MatchConfigs, JoinProcs)

NextMatch ==
    \/ \E p \in JoinProcs : JoinStart(p)
    \/ \E p \in JoinProcs : JoinSetNX(p)
    \/ \E p \in JoinProcs : JoinSave(p)
    \/ \E p \in JoinProcs : JoinZAdd(p)
    \/ \E p \in JoinProcs : JoinUnlock(p)
    \/ \E u \in MatchUsers : CancelQueue(u)
    \/ ComposerTick
    \/ ComposerRemove
    \/ ComposerCreate
    \/ ComposerNotify
    \/ Tick

SpecMatch == InitMatch /\ [][NextMatch]_vars

\* ------------------------------------------------------------------------
\* Matchmaker: selectPlayers and createTableAndMatch applied to a queue
\* ------------------------------------------------------------------------
MaxCandidates == 4

Candidate(u, lat, lng, ip, balance) ==
    [UserID |-> u, SceneID |-> 10, BuyIn |-> 100, GPSLat |-> lat, GPSLng |-> lng, IP |-> ip,
     BalanceSnapshot |-> balance, JoinedAt |-> 0]

\* the snapshots a queue may hold: users 1 and 2 share a /24 and stand 222 m apart, user 6
\* has the address of that /24 written as an IPv4-mapped IPv6 address, user 4 sent no
\* position and no address, users 5 and 7 have IPv6 addresses
CandidatePool ==
    { Candidate(1, 30000, 104000, IPv4(1, 2, 3, 4), 500),
      Candidate(2, 30002, 104000, IPv4(1, 2, 3, 99), 500),
      Candidate(3, 30010, 104000, IPv4(5, 6, 7, 8), 500),
      Candidate(4, 0, 0, NoIP, 500),
      Candidate(5, 30020, 104000, <<8193, 3512, 0, 0, 0, 0, 0, 1>>, 500),
      Candidate(6, 30030, 104000, <<0, 0, 0, 0, 0, 65535, 258, 818>>, 500),
      Candidate(7, 30021, 104000, <<8193, 3512, 0, 0, 0, 0, 0, 2>>, 500) }

\* the queues: the snapshots of up to MaxCandidates different users in any order
CandidateLists ==
    { c \in UNION { [1 .. n -> CandidatePool] : n \in 0 .. MaxCandidates } :
        \A i, j \in DOMAIN c : i # j => c[i] # c[j] }

SelectConfigs ==
    { MatchConfig(MatchScene(2, 100, 0, 0), FALSE, <<>>),
      MatchConfig(MatchScene(2, 100, 0, 500), FALSE, <<>>),
      MatchConfig(MatchScene(2, 100, 0, 500), TRUE, <<>>),
      MatchConfig(MatchScene(3, 100, 0, 500), FALSE, <<>>) }

InitSelect ==
    /\ matchCfg \in SelectConfigs
    /\ caseIn \in CandidateLists
    /\ caseOut = <<>>
    /\ now = 0
    /\ queue = <<>>
    /\ members = <<>>
    /\ qlock = <<>>
    /\ held = <<>>
    /\ notify = <<>>
    /\ tables = <<>>
    /\ joinCalls = <<>>
    /\ composer = <<>>
    /\ cancelled = {}
    /\ SettleAbsent
    /\ TableAbsent
    /\ RegistryAbsent
    /\ ActorAbsent

\* tryCompose from the candidates on: selectPlayers, and the table row if all seats are filled
SelectApply ==
    /\ caseOut = <<>>
    /\ LET scene == matchCfg.scene
           selected == selectPlayers(scene, caseIn)
       IN caseOut' = [selected |-> selected,
                      tables |-> IF Len(selected) < scene.SeatCount THEN <<>>
                                 ELSE <<createTableAndMatch(scene, selected)>>]
    /\ UNCHANGED <<caseIn, matchVars, settleVars, settleCfg, tableVars, registryVars,
                   actorVars>>

NextSelect == SelectApply

SpecSelect == InitSelect /\ [][NextSelect]_vars

\* the tables the composer has created from the queue
ComposedTables == IF caseOut = <<>> THEN <<>> ELSE caseOut.tables

\* the scene enforces the distance rule
GeoEnforced == matchCfg.scene.DistanceThresholdM > 0 /\ ~matchCfg.SkipLocationValidation

\* C6: on every table the composer creates, no two seated players have the same IPv4
\* /24 prefix, and when geo is enforced every two seated players have a position and are
\* at least distanceThresholdM metres apart, whatever the queue holds and in what order
C6_SeatedPairsCompatible ==
    \A t \in DOMAIN ComposedTables :
        LET seated == ComposedTables[t].players
        IN \A i, j \in DOMAIN seated :
              i # j =>
                /\ ~(Subnet24(seated[i].IP) # <<>> /\ Subnet24(seated[i].IP) = Subnet24(seated[j].IP))
                /\ GeoEnforced =>
                     /\ seated[i].GPSLat # 0 /\ seated[i].GPSLng # 0
                     /\ HaversineDistance(seated[i].GPSLat, seated[i].GPSLng,
                                          seated[j].GPSLat, seated[j].GPSLng)
                          >= matchCfg.scene.DistanceThresholdM

\* C6 witness: a table was created under geo enforcement from a queue in which one
\* candidate shares the /24 of a seated player and one stands closer than the threshold
\* to a seated player; neither is seated
C6_Witness ==
    /\ GeoEnforced
    /\ ComposedTables # <<>>
    /\ LET seated == ComposedTables[1].players
           left == {caseIn[i] : i \in DOMAIN caseIn} \ {seated[i] : i \in DOMAIN seated}
       IN /\ \E c \in left, i \in DOMAIN seated :
                 Subnet24(c.IP) # <<>> /\ Subnet24(c.IP) = Subnet24(seated[i].IP)
          /\ \E c \in left, i \in DOMAIN seated :
                 /\ c.GPSLat # 0
                 /\ HaversineDistance(c.GPSLat, c.GPSLng, seated[i].GPSLat, seated[i].GPSLng)
                      < matchCfg.scene.DistanceThresholdM

\* C7: when a queue removal of a composition reports 0, the composition is given up and
\* every player it had already removed (and who has not cancelled) is in the scene
\* queue with a snapshot again
C7_AbortKeepsSurvivors ==
    [][(composer.pc = "remove" /\ composer'.pc = "idle") =>
          \A i \in DOMAIN composer.players :
              (i < composer.idx /\ composer.players[i].UserID \notin cancelled')
                  => /\ queue'[composer.players[i].UserID] # 0
                     /\ members'[composer.players[i].UserID].exp > now']_vars

\* C8: no step of a join call changes the score or the snapshot of a user who is in
\* the queue already
C8_QueuedEntryKept ==
    [][\A p \in JoinProcs :
          (joinCalls'[p] # joinCalls[p] /\ queue[JoinUser(p)] # 0)
              => /\ queue'[JoinUser(p)] = queue[JoinUser(p)]
                 /\ members'[JoinUser(p)] = members[JoinUser(p)]]_vars

\* C9: from the return of cancel until the user joins again the status of the user is
\* idle: no queue entry, no snapshot, no match-ready notice
C9_IdleAfterCancel ==
    \A u \in cancelled :
        /\ GetStatus(u) = "idle"
        /\ queue[u] = 0
        /\ ~Live(members[u])
        /\ ~Live(notify[u])

\* C10: the runtime loaded from a table row the composer created seats the composed
\* users at seats 1..seatCount with chips equal to their buy-in
C10_ChipsAreBuyIn ==
    \A i \in DOMAIN tables :
        LET seats == parsePlayersJSON(tables[i].row.PlayersJSON)
        IN /\ Len(seats) = tables[i].SeatCount
           /\ \A k \in DOMAIN seats :
                 /\ seats[k].SeatIndex = k
                 /\ seats[k].UserID = tables[i].players[k].UserID
                 /\ seats[k].Chips = tables[i].players[k].BuyIn

\* C19: while the matched hold of a composed player runs, the player's queue lock is set
C19_MatchedHoldKept ==
    \A u \in MatchUsers : held[u] > now => qlock[u] > now


\* ------------------------------------------------------------------------
\* Runtime registry (game.Service.GetRuntime)
\* ------------------------------------------------------------------------
NumGetCalls == 3

GetProcs == 1 .. NumGetCalls
\* the table ids GetRuntime is called with; table 3 has no row
RegistryTables == {1, 2, 3}
TableRowExists(t) == t \in {1, 2}
ErrTableNotFound == "ErrTableNotFound"

registryFrame == <<settleVars, settleCfg, tableVars, caseVars, matchVars, actorVars>>

GetCall(pc, table, runtime, ret) == [pc |-> pc, table |-> table, rt |-> runtime, ret |-> ret]

\* s.runtimes.Load(tableID): a hit returns the stored actor
GetLoad(p, t) ==
    /\ getCalls[p].pc = "idle"
    /\ getCalls' = [getCalls EXCEPT ![p] =
                      IF runtimes[t] # 0 THEN GetCall("done", t, runtimes[t], ErrNone)
                      ELSE GetCall("create", t, 0, ErrNone)]
    /\ UNCHANGED <<runtimes, actors, registryFrame>>

\* after a miss: the table, match and scene rows are read and newTableRuntime builds an
\* actor and starts its loop; the actors of a table are numbered in the order they start
GetCreate(p) ==
    /\ getCalls[p].pc = "create"
    /\ LET t == getCalls[p].table
       IN IF ~TableRowExists(t)
          THEN /\ getCalls' = [getCalls EXCEPT ![p].pc = "done", ![p].ret = ErrTableNotFound]
               /\ UNCHANGED actors
          ELSE /\ actors' = [actors EXCEPT ![t] = @ + 1]
               /\ getCalls' = [getCalls EXCEPT ![p].pc = "store", ![p].rt = actors[t] + 1]
    /\ UNCHANGED <<runtimes, registryFrame>>

\* s.runtimes.Store(tableID, rt) and the return of rt
GetStore(p) ==
    /\ getCalls[p].pc = "store"
    /\ runtimes' = [runtimes EXCEPT ![getCalls[p].table] = getCalls[p].rt]
    /\ getCalls' = [getCalls EXCEPT ![p].pc = "done"]
    /\ UNCHANGED <<actors, registryFrame>>

InitRegistry ==
    /\ runtimes = [t \in RegistryTables |-> 0]
    /\ actors = [t \in RegistryTables |-> 0]
    /\ getCalls = [p \in GetProcs |-> GetCall("idle", 0, 0, ErrNone)]
    /\ SettleAbsent
    /\ TableAbsent
    /\ CaseAbsent
    /\ MatchAbsent
    /\ ActorAbsent

NextRegistry ==
    \/ \E p \in GetProcs, t \in RegistryTables : GetLoad(p, t)
    \/ \E p \in GetProcs : GetCreate(p)
    \/ \E p \in GetProcs : GetStore(p)

SpecRegistry == InitRegistry /\ [][NextRegistry]_vars

\* C11: at most one actor is ever started for a table, and the GetRuntime calls that
\* have returned for the same table all hold that actor
C11_OneActorPerTable ==
    /\ \A t \in RegistryTables : actors[t] <= 1
    /\ \A p, q \in GetProcs :
          (/\ getCalls[p].pc = "done" /\ getCalls[q].pc = "done"
           /\ getCalls[p].table = getCalls[q].table
           /\ getCalls[p].ret = ErrNone /\ getCalls[q].ret = ErrNone)
              => getCalls[p].rt = getCalls[q].rt

\* ------------------------------------------------------------------------
\* The command loop of a table actor (startLoop) and its callers
\* ------------------------------------------------------------------------
NumCallers == 3
\* make(chan loopCommand, 16)
CmdChCap == 16

Callers == 1 .. NumCallers
CommandKinds == {"subscribe", "unsubscribe", "action"}

actorFrame == <<settleVars, settleCfg, tableVars, caseVars, matchVars, registryVars>>

\* what handleCommand sends on cmd.resp: nil for subscribe and unsubscribe, the result
\* of handleActionLocked for action
Responses(kind) == IF kind = "action" THEN {Nil, ErrTableAccessDenied} ELSE {Nil}

\* Subscribe, Unsubscribe, HandleAction: the send on rt.cmdCh; the caller then waits on resp
CallerSend(c, kind) ==
    /\ callers[c].pc = "idle"
    /\ Len(cmdCh) < CmdChCap
    /\ cmdCh' = Append(cmdCh, [caller |-> c, kind |-> kind])
    /\ callers' = [callers EXCEPT ![c] = [pc |-> "waiting", kind |-> kind, resp |-> <<>>]]
    /\ UNCHANGED <<quitCh, loopPc, actorFrame>>

\* the receive from resp and the return
CallerReturn(c) ==
    /\ callers[c].pc = "waiting"
    /\ callers[c].resp # <<>>
    /\ callers' = [callers EXCEPT ![c].pc = "returned"]
    /\ UNCHANGED <<cmdCh, quitCh, loopPc, actorFrame>>

\* the loop takes case cmd := <-rt.cmdCh: handleCommand answers on cmd.resp
\* (what the handlers do to the table is the subject of SpecTable)
LoopCommand ==
    /\ loopPc = "running"
    /\ cmdCh # <<>>
    /\ \E r \in Responses(Head(cmdCh).kind) :
          callers' = [callers EXCEPT ![Head(cmdCh).caller].resp = <<r>>]
    /\ cmdCh' = Tail(cmdCh)
    /\ UNCHANGED <<quitCh, loopPc, actorFrame>>

\* the loop takes case <-rt.quitCh: the goroutine returns
LoopQuit ==
    /\ loopPc = "running"
    /\ quitCh
    /\ loopPc' = "stopped"
    /\ UNCHANGED <<cmdCh, quitCh, callers, actorFrame>>

\* the stop signal: rt.quitCh is closed
Stop ==
    /\ ~quitCh
    /\ quitCh' = TRUE
    /\ UNCHANGED <<cmdCh, loopPc, callers, actorFrame>>

InitActor ==
    /\ cmdCh = <<>>
    /\ quitCh = FALSE
    /\ loopPc = "running"
    /\ callers = [c \in Callers |-> [pc |-> "idle", kind |-> "", resp |-> <<>>]]
    /\ SettleAbsent
    /\ TableAbsent
    /\ CaseAbsent
    /\ MatchAbsent
    /\ RegistryAbsent

NextActor ==
    \/ \E c \in Callers, kind \in CommandKinds : CallerSend(c, kind)
    \/ \E c \in Callers : CallerReturn(c)
    \/ LoopCommand
    \/ LoopQuit
    \/ Stop

\* the goroutine of the loop and the goroutines of the callers are scheduled: a step
\* of theirs that stays possible is taken
SpecActor ==
    /\ InitActor
    /\ [][NextActor]_vars
    /\ WF_vars(LoopCommand \/ LoopQuit)
    /\ \A c \in Callers : WF_vars(CallerReturn(c))

\* C20: every caller that has submitted a command returns, whether or not the stop
\* signal is given
C20_NoCallerBlocksForever ==
    \A c \in Callers : (callers[c].pc = "waiting") ~> (callers[c].pc = "returned")

\* ------------------------------------------------------------------------
\* Table runtime: allowed actions, turn order and raises
\* ------------------------------------------------------------------------
\* the user seated at the seat whose turn it is
TurnUsers == {u \in TableUsers : seatByUser(rt, u) # 0 /\ seatByUser(rt, u) = rt.turnSeat}

\* C21: in every reachable state where the round is 3, the seat whose turn it is is
\* offered exactly {fold}, and no pass, call, raise or knock_bobo submitted in round 3
\* changes a bet, the chips, the pot or lastRaise.
C21_Round3OnlyFold ==
    rt.round = 3 =>
      /\ \E u \in TurnUsers : allowedActionsLocked(rt, u) = {"fold"}
      /\ \A u \in TableUsers, a \in {"pass", "call", "raise", "knock_bobo"} :
           \A amount \in AmountsOf(a) : \A r \in Answers(u, a, amount) :
              r.rt.seats = rt.seats /\ r.rt.pot = rt.pot /\ r.rt.lastRaise = rt.lastRaise

TurnActions == {"fold", "pass", "call", "raise", "knock_bobo"}

\* the active seats other than seatIdx that have not acted since the acted set was reset
OwingSeats(t, seatIdx) ==
    {t.seats[i].SeatIndex : i \in {j \in DOMAIN t.seats :
        /\ t.seats[j].Status \notin {"folded", "eliminated"}
        /\ t.seats[j].SeatIndex # seatIdx
        /\ t.seats[j].SeatIndex \notin t.roundActed}}

\* C25: after every accepted turn action (fold, pass, call, raise, knock_bobo submitted
\* directly or coerced from a raise) the hand is settled if one active seat remains,
\* else the round advances if it is complete, else the turn moves to the next active
\* seat and the turn timer is reset; the seat that acted does not keep the turn while
\* another active seat still has to respond in the round.
C25_TurnMovesOn ==
    rt.phase = PhasePlaying =>
      \A u \in TurnUsers, a \in TurnActions :
        \A amount \in AmountsOf(a) : \A r \in Answers(u, a, amount) :
          r.err = Nil =>
            LET mid == turnActionLocked(rt, a, rt.turnSeat, amount).rt
            IN /\ IF shouldSettleLocked(mid) THEN r.rt.phase \in {PhaseSettling, PhaseEnded}
                  ELSE IF shouldAdvanceRoundLocked(mid) THEN r.rt.round = rt.round + 1
                  ELSE /\ r.rt.turnSeat = nextActiveAfterLocked(mid, rt.turnSeat)
                       /\ r.rt.timer = "armed"
               /\ (/\ r.rt.phase = PhasePlaying
                   /\ r.rt.round = rt.round
                   /\ OwingSeats(r.rt, rt.turnSeat) # {}) => r.rt.turnSeat # rt.turnSeat

\* the step closes a betting round of the hand
RoundClosed == rt.phase = PhasePlaying /\ rt.round >= 1 /\ rt'.round = rt.round + 1

\* C26: an accepted raise or knock_bobo resets the acted set to the seat that made it
\* and leaves the round open; while an active seat other than the turn seat has not
\* acted since the reset, no step advances the round or takes the hand to a showdown;
\* and a step closes a round only when every active seat has acted in the round and has
\* bet at least lastRaise or has no chips left.
C26_RaiseReopensRound ==
    /\ [](rt.phase = PhasePlaying =>
            \A u \in TurnUsers, a \in {"raise", "knock_bobo"} :
              \A amount \in AmountsOf(a) : \A r \in Answers(u, a, amount) :
                r.err = Nil => /\ r.rt.roundActed = {rt.turnSeat}
                               /\ r.rt.round = rt.round
                               /\ r.rt.phase = PhasePlaying)
    /\ [][ (/\ rt.phase = PhasePlaying /\ rt.round >= 1
            /\ OwingSeats(rt, rt.turnSeat) # {}
            /\ Len(activeSeatsLocked(rt')) >= 2)
           => rt'.round = rt.round /\ rt'.phase = PhasePlaying ]_vars
    /\ [][ RoundClosed =>
             \A i \in DOMAIN rt.seats :
               rt'.seats[i].Status \notin {"folded", "eliminated"} =>
                 /\ rt.seats[i].SeatIndex \in rt.roundActed \cup {rt.turnSeat}
                 /\ \/ rt'.seats[i].Bet >= rt'.lastRaise
                    \/ rt.seats[i].Chips - (rt'.seats[i].Bet - rt.seats[i].Bet) = 0 ]_vars

\* C26 witness: a seat has raised, the acted set holds that seat alone, and the turn is
\* with another active seat whose bet is below lastRaise
C26_Witness ==
    /\ rt.phase = PhasePlaying
    /\ rt.lastAggSeat # 0
    /\ rt.roundActed = {rt.lastAggSeat}
    /\ rt.turnSeat # rt.lastAggSeat
    /\ rt.turnSeat # 0
    /\ findSeatLocked(rt, rt.turnSeat).Bet < rt.lastRaise
    /\ findSeatLocked(rt, rt.turnSeat).Chips > 0

\* the amounts a raise is tried with
ProbeAmounts == {0 - 5, 0, 5, 10, 12, 20, 22, 30, 50, 52, 90, 100, 300}

\* the raise of the turn seat with that amount is applied as a raise: handleRaiseLocked
\* accepts it and does not hand it to handleKnockBoboLocked
AppliedAsRaise(amount) ==
    /\ handleRaiseLocked(rt, rt.turnSeat, amount).err = Nil
    /\ handleRaiseLocked(rt, rt.turnSeat, amount) # handleKnockBoboLocked(rt, rt.turnSeat)

\* the raise is the first action of the round and comes from its first actor
FirstActorOpens == rt.roundActed = {} /\ rt.turnSeat = firstActorSeatLocked(rt)

\* C27 as stated: in round 1 a raise is applied as a raise only if, when it is the first
\* actor's first action, amount = 2 x basePi, and otherwise
\* amount >= max(minUnitPi x 5, basePi x 5) and amount >= lastRaise + minUnitPi.
C27_Round1RaiseAsStated ==
    (rt.phase = PhasePlaying /\ rt.round = 1) =>
      \A u \in TurnUsers, amount \in ProbeAmounts : \A r \in Answers(u, "raise", amount) :
        (r.err = Nil /\ AppliedAsRaise(amount)) =>
          IF FirstActorOpens THEN amount = 2 * rt.basePi
          ELSE /\ amount >= MaxOf(rt.minUnitPi * 5, rt.basePi * 5)
               /\ amount >= rt.lastRaise + rt.minUnitPi

\* what the code asks of a round-1 raise: at least 5 minimum units (5 base antes when
\* the unit is 0), at least lastRaise, above the bet of the seat by no more than its
\* chips, and 2 x basePi exactly when the first actor opens the round
Round1RaiseOk(amount) ==
    LET seat == findSeatLocked(rt, rt.turnSeat)
    IN /\ amount >= (IF rt.minUnitPi = 0 THEN rt.basePi * 5 ELSE rt.minUnitPi * 5)
       /\ amount >= rt.lastRaise
       /\ amount > seat.Bet
       /\ amount - seat.Bet <= seat.Chips
       /\ FirstActorOpens => amount = 2 * rt.basePi

\* C27 amended: in round 1, before the turn has expired, the raise of the turn seat is
\* applied as a raise (bet and lastRaise become amount, the pot grows by the
\* difference) exactly when amount >= 5 x minUnitPi (5 x basePi when minUnitPi is 0),
\* amount >= lastRaise, amount exceeds the bet of the seat by no more than its chips,
\* and amount = 2 x basePi when it is the first actor's first action; any other amount
\* is refused or turned into a knock_bobo, and with bobo disabled it is refused with
\* an error and no change of state.
C27_Round1Raise ==
    (rt.phase = PhasePlaying /\ rt.round = 1 /\ ~isTurnExpiredLocked(rt)) =>
      \A u \in TurnUsers, amount \in ProbeAmounts : \A r \in Answers(u, "raise", amount) :
        IF Round1RaiseOk(amount)
        THEN /\ r.err = Nil
             /\ AppliedAsRaise(amount)
             /\ findSeatLocked(r.rt, rt.turnSeat).Bet = amount
             /\ r.rt.lastRaise = amount
             /\ r.rt.pot = rt.pot + amount - findSeatLocked(rt, rt.turnSeat).Bet
        ELSE /\ r.err # Nil \/ ~AppliedAsRaise(amount)
             /\ ~rt.boboEnabled => r.err # Nil /\ r.rt = rt /\ r.chans = chans

\* C27 witness: in round 1 a seat that did not open the round has raised to 20, which
\* is below 5 x basePi, and the other seat has to answer
C27_Witness ==
    /\ rt.phase = PhasePlaying /\ rt.round = 1
    /\ rt.raisedRound1
    /\ rt.lastRaise = 20 /\ rt.lastRaise < 5 * rt.basePi
    /\ rt.lastAggSeat # 0 /\ rt.lastAggSeat # firstActorSeatLocked(rt)
    /\ rt.roundActed = {rt.lastAggSeat}

\* the answer r of the actor put a state message with a seq above every seq used so
\* far on the channel of every subscriber whose buffer had room
StateOffered(r) ==
    \A s \in DOMAIN rt.subscribers :
      LET c == rt.subscribers[s]
      IN Len(chans[c].buf) < 8 =>
           \E k \in DOMAIN r.chans[c].buf :
              /\ k > Len(chans[c].buf)
              /\ r.chans[c].buf[k].Type = "state"
              /\ r.chans[c].buf[k].Seq > rt.seq

\* C28: every accepted command that changes the state (ready, fold, pass, call, raise,
\* knock_bobo, and the auto-action of the timeout) offers a state message with a fresh
\* seq to every current subscriber before the next command is taken; the message is
\* missing for a subscriber only when the buffer of that subscriber was full.
C28_StateToSubscribers ==
    /\ \A u \in TableUsers, a \in {"ready"} \cup TurnActions :
         \A amount \in AmountsOf(a) : \A r \in Answers(u, a, amount) :
            (r.err = Nil /\ r.rt # rt) => StateOffered(r)
    /\ (rt.phase = PhasePlaying /\ isTurnExpiredLocked(rt)) =>
         \A ch \in ChancesOf(rt, handleTurnTimeoutLocked(World, NoChance).rt) :
            StateOffered(handleTurnTimeoutLocked(World, ch))

\* C29: in every playing state a turn action whose type is not among the allowed
\* actions published to the turn seat is rejected whatever its payload; the action the
\* timeout applies (auto-pass or auto-fold) is among them; and pass is allowed exactly
\* when the seat has matched lastRaise or is out of chips, call exactly when not.
C29_OnlyAllowedAccepted ==
    rt.phase = PhasePlaying =>
      \A u \in TurnUsers :
        LET allowed == allowedActionsLocked(rt, u)
            seat == findSeatLocked(rt, rt.turnSeat)
            level == seat.Bet >= rt.lastRaise \/ seat.Chips = 0
        IN /\ \A a \in TurnActions \ allowed :
                \A amount \in (IF a = "raise" THEN ProbeAmounts ELSE {0}) :
                  \A r \in Answers(u, a, amount) : r.err # Nil
           /\ (IF canPassLocked(rt, rt.turnSeat) THEN "pass" ELSE "fold") \in allowed
           /\ ("pass" \in allowed) = level
           /\ ("call" \in allowed) = ~level

\* C30: when the settlement of a finished hand has failed, the runtime is in phase
\* settling, not ended, until a later attempt for the hand succeeds; the runtime is
\* ended only for hands whose settlement was committed.
C30_FailedSettleKeepsSettling ==
    tableRow.settled = "failed" => rt.phase = PhaseSettling /\ rt.phase # PhaseEnded

\* ------------------------------------------------------------------------
\* BestSplit applied to the hands the deck can deal
\* ------------------------------------------------------------------------
\* the hands of 3 and of 4 cards, in every order, that hold no more copies of a code
\* than the deck does
SplitHands ==
    LET codes == DOMAIN chexuanCardMap
        feasible(h) == \A c \in codes :
                          Cardinality({i \in DOMAIN h : h[i] = c}) <= chexuanDeckTemplate[c]
    IN {h \in (codes \X codes \X codes) \cup (codes \X codes \X codes \X codes) : feasible(h)}

InitSplit ==
    /\ caseIn \in SplitHands
    /\ caseOut = <<>>
    /\ SettleAbsent
    /\ TableAbsent
    /\ MatchAbsent
    /\ RegistryAbsent
    /\ ActorAbsent

SplitApply ==
    /\ caseOut = <<>>
    /\ caseOut' = BestSplit(caseIn)
    /\ UNCHANGED <<caseIn, settleVars, settleCfg, tableVars, matchVars, registryVars, actorVars>>

NextSplit == SplitApply

SpecSplit == InitSplit /\ [][NextSplit]_vars

\* the splits of a hand: two positions for the head, the other cards for the tail
AllSplits(cards) ==
    { [head |-> <<cards[i], cards[j]>>,
       tail |-> SelectSeq([k \in DOMAIN cards |-> IF k = i \/ k = j THEN "" ELSE cards[k]],
                          LAMBDA c : c # "")] :
        <<i, j>> \in {p \in (DOMAIN cards) \X (DOMAIN cards) : p[1] < p[2]} }

\* the head of a split is not weaker than its tail
HeadNotWeaker(sp) ==
    \/ evaluatePairScore(sp.head) > evaluatePairScore(sp.tail)
    \/ /\ evaluatePairScore(sp.head) = evaluatePairScore(sp.tail)
       /\ chexuanHeadMaxRank(sp.head) >= chexuanHeadMaxRank(sp.tail)

\* (headScore, tailScore) of split a is lexicographically above that of split b
LexGreater(a, b) ==
    \/ evaluatePairScore(a.head) > evaluatePairScore(b.head)
    \/ /\ evaluatePairScore(a.head) = evaluatePairScore(b.head)
       /\ evaluatePairScore(a.tail) > evaluatePairScore(b.tail)

CompareHands ==
    { <<"B10", "R10", "BJ", "RQ">>,
      <<"B6", "BK", "R6", "R2">>,
      <<"BK", "R3", "RQ", "B9">>,
      <<"RQ", "RQ", "R2", "R2">>,
      <<"RQ", "RQ", "R4", "R6">>,
      <<"R2", "R2", "R8", "R8">>,
      <<"R8", "R4", "B5", "B7">>,
      <<"B9", "B8", "B7", "B5">>,
      <<"R4", "B4", "B6", "R6">>,
      <<"RQ", "B9", "B8">>,
      <<"R7">> }

\* the participants settleChexuanLocked builds from a seat holding one of the hands
CompareParticipants ==
    { chexuanPlayer(LedgerSeat(1, h, 10, f)) : h \in CompareHands, f \in BOOLEAN }

InitCompare ==
    /\ caseIn \in CompareParticipants \X CompareParticipants
    /\ caseOut = <<>>
    /\ SettleAbsent
    /\ TableAbsent
    /\ MatchAbsent
    /\ RegistryAbsent
    /\ ActorAbsent

CompareApply ==
    /\ caseOut = <<>>
    /\ caseOut' = [ab |-> compareChexuanSplit(caseIn[1], caseIn[2]),
                   ba |-> compareChexuanSplit(caseIn[2], caseIn[1])]
    /\ UNCHANGED <<caseIn, settleVars, settleCfg, tableVars, matchVars, registryVars, actorVars>>

NextCompare == CompareApply

SpecCompare == InitCompare /\ [][NextCompare]_vars

\* C23: for any two showdown participants A and B, compare(A, B) = -compare(B, A), and
\* when either of them holds SanHua the comparison is a tie in both directions.
C23_CompareAntisymmetric ==
    caseOut # <<>> =>
      /\ caseOut.ab = 0 - caseOut.ba
      /\ (caseIn[1].IsSanHua \/ caseIn[2].IsSanHua) => caseOut.ab = 0 /\ caseOut.ba = 0

\* C23 witness: A beats B on the head with an equal tail, neither folded nor SanHua,
\* and the two comparisons came out 1 and -1
C23_Witness ==
    /\ caseOut # <<>>
    /\ ~caseIn[1].Folded /\ ~caseIn[2].Folded
    /\ ~caseIn[1].IsSanHua /\ ~caseIn[2].IsSanHua
    /\ ~caseIn[1].Invalid /\ ~caseIn[2].Invalid
    /\ caseIn[1].HeadScore = caseIn[2].HeadScore
    /\ caseIn[1].TailScore > caseIn[2].TailScore
    /\ caseOut.ab = 1 /\ caseOut.ba = 0 - 1

\* ------------------------------------------------------------------------
\* Matchmaker: joins and the scene
\* ------------------------------------------------------------------------
\* the scene has a row and the row says enabled
SceneJoinable == matchCfg.found /\ matchCfg.scene.Status = "enabled"

\* C24: a join on a scene that does not exist or is not enabled is rejected and adds no
\* queue entry, snapshot or lock for the user; only joins on existing, enabled scenes
\* can enqueue.
C24_UnusableSceneRejects ==
    ~SceneJoinable =>
      /\ \A u \in MatchUsers : queue[u] = 0 /\ members[u] = NoKey /\ qlock[u] = 0
      /\ \A p \in DOMAIN joinCalls : joinCalls[p].pc = "done" => joinCalls[p].ret # ErrNone

\* ------------------------------------------------------------------------
\* Table runtime: the ledger of a hand, dealing, chips and termination
\* ------------------------------------------------------------------------
NetSum(results) == SumSeq([i \in DOMAIN results |-> results[i].NetPoints])

\* C31: the results the runtime stores at the end of a hand sum to 0, on every path
\* that ends a hand, and the request handleRuntimeFinish builds from them passes the
\* validation of SettleMatch.
C31_LedgerSumsToZero ==
    /\ NetSum(rt.SettlementResults) = 0
    /\ rt.finished > 0 =>
         /\ NetSum(handleRuntimeFinish(rt, tableRow, FALSE).request) = 0
         /\ handleRuntimeFinish(rt, tableRow, FALSE).settled = "done"
    /\ tableRow.settled # "failed"

\* a Chexuan hand has ended with points changing hands and was settled
C31_Witness ==
    /\ rt.phase = PhaseEnded
    /\ rt.chexuanMode
    /\ tableRow.settled = "done"
    /\ \E i \in DOMAIN rt.SettlementResults : rt.SettlementResults[i].NetPoints > 0

\* the seat of the user a result is for has folded
FoldedResult(res) ==
    /\ findSeatIdxLocked(rt, seatByUser(rt, res.UserID)) # 0
    /\ findSeatLocked(rt, seatByUser(rt, res.UserID)).Status = "folded"

\* C35: in the results of an ended hand a seat that folded has net points <= 0; in
\* particular, after a hand that ended because all seats but one folded, or by the
\* tail-big override, the seat with the positive net points has not folded.
C35_FoldedSeatNeverCollects ==
    rt.phase = PhaseEnded =>
       \A i \in DOMAIN rt.SettlementResults :
          FoldedResult(rt.SettlementResults[i]) => rt.SettlementResults[i].NetPoints <= 0

\* ------------------------------------------------------------------------
\* Table runtime: the hand as a loop of turns.  The log and the sequence number
\* only count, so they are left out, and a state can come back; every
\* resetTurnTimerLocked makes a new timer, told from the one before by its name
\* ------------------------------------------------------------------------
HandDeployments ==
    { Deployment(<<30, 30>>, 0, Scene(10, 2, TRUE, TRUE, TRUE), 0),
      Deployment(<<30, 30>>, 0, Scene(10, 2, FALSE, TRUE, TRUE), 0) }
HandUsers == {1, 2}
HandActions == {"ready", "pass", "call", "raise", "fold", "knock_bobo"}
HandAmounts == {0, 20}
TurnTimers == {"armed", "rearmed"}

InitHand == InitTableOf(HandDeployments)

\* the runtime as a handler finds it, the running timer marked so that it shows
\* whether the handler has replaced it
HandWorld ==
    [rt |-> [rt EXCEPT !.timer = IF @ \in TurnTimers THEN "kept" ELSE @],
     chans |-> chans, err |-> Nil]

\* the runtime as a handler leaves it
AfterHandler(t) ==
    [t EXCEPT !.logs = 0, !.seq = 0,
              !.timer = IF @ = "kept" THEN rt.timer
                        ELSE IF @ = "armed" /\ rt.timer = "armed" THEN "rearmed"
                        ELSE @]

\* HandleAction: the actor answers an action command
HandCommand(userID, action, amount) ==
    /\ \E ch \in ChancesOf(rt, handleActionLocked(HandWorld, userID, action, amount,
                                                  NoChance).rt) :
         \E r \in { handleActionLocked(HandWorld, userID, action, amount, ch) } :
            /\ rt' = AfterHandler(r.rt)
            /\ chans' = r.chans
    /\ UNCHANGED <<tableRow, probes, tableFrame>>

\* the timer g of the turn fires
HandDeadline(g) ==
    /\ rt.timer = g
    /\ rt' = [rt EXCEPT !.timer = "expired"]
    /\ UNCHANGED <<chans, tableRow, probes, tableFrame>>

\* the actor takes the tick of the turn timer
HandTimeout ==
    /\ rt.timer = "expired"
    /\ \E ch \in ChancesOf(rt, handleTurnTimeoutLocked(HandWorld, NoChance).rt) :
         \E r \in { handleTurnTimeoutLocked(HandWorld, ch) } :
            /\ rt' = AfterHandler(r.rt)
            /\ chans' = r.chans
    /\ UNCHANGED <<tableRow, probes, tableFrame>>

NextHand ==
    \/ \E u \in HandUsers, a \in HandActions :
          \E amount \in (IF a = "raise" THEN HandAmounts ELSE {0}) : HandCommand(u, a, amount)
    \/ \E g \in TurnTimers : HandDeadline(g)
    \/ HandTimeout

\* a timer that is left running fires, and the actor, which is a goroutine of its
\* own, takes the tick
SpecHand ==
    /\ InitHand
    /\ [][NextHand]_vars
    /\ \A g \in TurnTimers : WF_vars(HandDeadline(g))
    /\ WF_vars(HandTimeout)

\* C36: every hand that is being played ends, whatever the players send, as long as
\* a turn timer that is left running fires.
C36_HandTerminates == (rt.phase = PhasePlaying) ~> (rt.phase = PhaseEnded)

\* ------------------------------------------------------------------------
\* Table runtime: a user who connects twice
\* ------------------------------------------------------------------------
\* a table whose first user opens two websocket connections
ReconnectDeployments == { Deployment(<<30, 30>>, 0, Scene(10, 2, TRUE, TRUE, TRUE), 2) }
ReconnectActions == {"ready", "fold"}

InitReconnect == InitTableOf(ReconnectDeployments)

NextReconnect ==
    \/ \E u \in {1, 2}, a \in ReconnectActions : TableCommand(u, a, 0)
    \/ \E c \in DOMAIN chans : TableSubscribe(c)
    \/ \E c \in DOMAIN chans : TableUnsubscribe(c)
    \/ \E c \in DOMAIN chans : TableDeliver(c)

SpecReconnect == InitReconnect /\ [][NextReconnect]_vars

\* connection c is live but the subscription of its user is the one of connection d
StaleFor(c, d) ==
    /\ c # d
    /\ chans[c].st = "live"
    /\ chans[d].st = "live"
    /\ chans[c].user \in DOMAIN rt.subscribers
    /\ rt.subscribers[chans[c].user] = d

\* C37: when the read pump of a stale connection ends, the subscription the user made
\* later on another connection stays registered and its channel stays open.
C37_StaleUnsubscribeKeepsNewer ==
    [][\A c, d \in DOMAIN chans :
          (StaleFor(c, d) /\ chans'[c].st = "gone") =>
             /\ chans[c].user \in DOMAIN rt'.subscribers
             /\ rt'.subscribers[chans[c].user] = d
             /\ ~chans'[d].closed]_vars

\* ------------------------------------------------------------------------
\* Table runtime: chips, bets and the pot while a hand is played
\* ------------------------------------------------------------------------
BetSum(t) == SumSeq([i \in DOMAIN t.seats |-> t.seats[i].Bet])

\* what a seat holds at a step into or within the playing phase: at the start of the
\* hand its chips (startRoundLocked clears the bet), afterwards its chips and its bet
HeldBefore(t, i) ==
    IF t.phase = PhasePlaying THEN t.seats[i].Chips + t.seats[i].Bet ELSE t.seats[i].Chips

\* C39: in every state of a hand from the ante until settlement the pot is the sum of
\* the bets, no seat has negative chips or a negative bet, and the chips and the bet
\* of a seat add up to the chips it had when the hand started.
C39_ChipsAndBetsConserved ==
    [][ rt'.phase = PhasePlaying =>
          /\ rt'.pot = BetSum(rt')
          /\ DOMAIN rt'.seats = DOMAIN rt.seats
          /\ \A i \in DOMAIN rt.seats :
                /\ rt'.seats[i].Chips >= 0
                /\ rt'.seats[i].Bet >= 0
                /\ rt'.seats[i].Chips + rt'.seats[i].Bet = HeldBefore(rt, i) ]_vars

\* a hand in its second round where a seat has shoved all its chips and another seat
\* has bet without being all in
C39_Witness ==
    /\ rt.phase = PhasePlaying
    /\ rt.round >= 2
    /\ rt.pot > 2 * rt.basePi
    /\ \E i, j \in DOMAIN rt.seats :
          /\ rt.seats[i].Chips = 0 /\ rt.seats[i].Bet > 0
          /\ rt.seats[j].Chips > 0 /\ rt.seats[j].Bet > rt.basePi

\* C40: within a hand lastRaise never decreases and is never below the bet of a seat.
C40_LastRaiseMonotone ==
    [][ (rt.phase = PhasePlaying /\ rt'.phase = PhasePlaying)
          => /\ rt'.lastRaise >= rt.lastRaise
             /\ \A i \in DOMAIN rt'.seats : rt'.lastRaise >= rt'.seats[i].Bet ]_vars

\* ------------------------------------------------------------------------
\* Matchmaker: users who queue again after they were seated
\* ------------------------------------------------------------------------
\* the scene without the distance rule, two clients on different networks
RejoinConfigs ==
    { MatchConfig(MatchScene(2, 100, 0, 0), FALSE,
                  <<Client(0, 0, IPv4(1, 2, 3, 4), 1000), Client(0, 0, IPv4(5, 6, 7, 8), 1000)>>) }

\* each of the two users joins twice, and the composer is followed for two tables
InitRejoin == InitMatchOf(RejoinConfigs, 1 .. NumJoinCalls + 1)

\* a client sends its next join once the answer to the previous one has arrived
EarlierAnswered(p) ==
    \A q \in DOMAIN joinCalls : (q < p /\ JoinUser(q) = JoinUser(p)) => joinCalls[q].pc = "done"

NextRejoin ==
    \/ \E p \in DOMAIN joinCalls : EarlierAnswered(p) /\ JoinStart(p)
    \/ \E p \in DOMAIN joinCalls : JoinSetNX(p)
    \/ \E p \in DOMAIN joinCalls : JoinSave(p)
    \/ \E p \in DOMAIN joinCalls : JoinZAdd(p)
    \/ \E p \in DOMAIN joinCalls : JoinUnlock(p)
    \/ ComposerTickUpTo(MaxTables + 1)
    \/ ComposerRemove
    \/ ComposerCreate
    \/ ComposerNotify
    \/ Tick

SpecRejoin == InitRejoin /\ [][NextRejoin]_vars

SeatedAt(t) == { tables[t].players[i].UserID : i \in DOMAIN tables[t].players }

\* C38: no user is seated at two tables of which neither has ended.
C38_OneLiveTablePerUser ==
    \A t1, t2 \in DOMAIN tables :
       (t1 # t2 /\ tables[t1].Status # "ended" /\ tables[t2].Status # "ended")
          => SeatedAt(t1) \cap SeatedAt(t2) = {}

\* ------------------------------------------------------------------------
\* calculateRake applied to ladder rules
\* ------------------------------------------------------------------------
MaxWin == 120
\* ladder rules: a free first step inside a wider one, a ratio step overlapping a
\* value step, a narrow value step before an open ratio step, disjoint steps
LadderRules ==
    { RakeRuleOf("ladder", 0, 0, 0,
                 <<LadderStep(0, 5, 0, 0), LadderStep(0, 100, 10, 0),
                   LadderStep(101, 0, 0, 25)>>, FALSE),
      RakeRuleOf("ladder", 0, 0, 0,
                 <<LadderStep(0, 50, 5, 0), LadderStep(30, 0, 0, 8)>>, FALSE),
      RakeRuleOf("ladder", 0, 0, 0,
                 <<LadderStep(10, 20, 0, 30), LadderStep(0, 0, 20, 7)>>, FALSE),
      RakeRuleOf("ladder", 0, 0, 0,
                 <<LadderStep(1, 40, 10, 0), LadderStep(41, 80, 0, 6)>>, FALSE) }

InitRake ==
    /\ caseIn \in [rule : LadderRules, win : 0 .. MaxWin]
    /\ caseOut = <<>>
    /\ SettleAbsent
    /\ TableAbsent
    /\ MatchAbsent
    /\ RegistryAbsent
    /\ ActorAbsent

\* settleWinner asks for the rake of a win
RakeApply ==
    /\ caseOut = <<>>
    /\ caseOut' = [rake |-> calculateRake(caseIn.rule, caseIn.win)]
    /\ UNCHANGED <<caseIn, settleVars, settleCfg, tableVars, matchVars, registryVars,
                   actorVars>>

NextRake == RakeApply

SpecRake == InitRake /\ [][NextRake]_vars

\* the first step, in list order, whose range contains the win; 0 if there is none
FirstMatching(steps, win) ==
    LET inRange(k) == /\ (steps[k].min = 0 \/ win >= steps[k].min)
                      /\ (steps[k].max = 0 \/ win <= steps[k].max)
    IN IF \E k \in DOMAIN steps : inRange(k)
       THEN CHOOSE k \in DOMAIN steps : inRange(k) /\ \A j \in 1 .. k - 1 : ~inRange(j)
       ELSE 0

\* the rake the first matching step gives: its ratio if it has one, else its value
StepRake(step, win) ==
    IF step.ratio > 0 THEN clampRake(RoundPct(win, step.ratio), win, 0)
    ELSE clampRake(step.value, win, 0)

\* C32: the rake of a win under a ladder rule is the rake of the first step, in list
\* order, whose range contains the win; later steps are never used.
C32_FirstMatchingStepDecides ==
    caseOut # <<>> =>
       caseOut.rake =
          IF caseIn.win <= 0 \/ FirstMatching(caseIn.rule.steps, caseIn.win) = 0 THEN 0
          ELSE StepRake(caseIn.rule.steps[FirstMatching(caseIn.rule.steps, caseIn.win)],
                        caseIn.win)

\* ------------------------------------------------------------------------
\* distributeAgentShare applied to the rake of a winner
\* ------------------------------------------------------------------------
MaxRake == 40

InitShare ==
    /\ caseIn \in [winner : WalletIDs, rake : 0 .. MaxRake,
                   arule : { r \in AgentRules : ~r.nil }]
    /\ caseOut = <<>>
    /\ SettleAbsent
    /\ TableAbsent
    /\ MatchAbsent
    /\ RegistryAbsent
    /\ ActorAbsent

\* settleWinner hands the rake of a winner to distributeAgentShare, the wallets of
\* the agents being empty before
ShareApply ==
    /\ caseOut = <<>>
    /\ \E out \in { distributeAgentShare([u \in WalletIDs |-> ZeroWallet], caseIn.winner,
                                         caseIn.rake, caseIn.arule) } :
         caseOut' = [records |-> out.records, platformShare |-> out.platformShare,
                     credited |-> [u \in WalletIDs |-> out.book[u].BalanceAvailable]]
    /\ UNCHANGED <<caseIn, settleVars, settleCfg, tableVars, matchVars, registryVars,
                   actorVars>>

NextShare == ShareApply

SpecShare == InitShare /\ [][NextShare]_vars

\* the direct agent of a user: the rightmost id of the path, or the bound agent when
\* the path is absent; 0 if there is none
DirectAgent(user) ==
    LET ids == SelectSeq(parseAgentPath(user.AgentPath), LAMBDA id : id # 0)
    IN IF Len(parseAgentPath(user.AgentPath)) = 0 THEN user.BindAgentID
       ELSE IF ids = <<>> THEN 0
       ELSE ids[Len(ids)]

\* what the agents of the levels below k have been credited
RECURSIVE SharesBelow(_, _, _)
\* the share of level k: round(rake * ratio), cut to what the levels below left
ShareOfLevel(rake, rule, k) ==
    LET full == RoundPct(rake, levelRatio(rule, k))
        left == rake - SharesBelow(rake, rule, k)
    IN IF full <= 0 THEN 0 ELSE IF full > left THEN left ELSE full
SharesBelow(rake, rule, k) ==
    IF k <= 1 THEN 0
    ELSE SharesBelow(rake, rule, k - 1) + ShareOfLevel(rake, rule, k - 1)

\* C33: the k-th agent of the winner's chain (the direct agent is level 1, no agent
\* occurs twice) is credited round(rake * ratio of level k) cut to what is left of the
\* rake, the shares never add up to more than the rake, and the platform income is
\* the rake minus the shares, which is not negative.
C33_AgentShares ==
    caseOut # <<>> =>
       LET chain == resolveAgentChain(UserRows[caseIn.winner])
           rake == caseIn.rake
           amount(k) == ShareOfLevel(rake, caseIn.arule, k)
       IN /\ Len(chain) > 0 => chain[1] = DirectAgent(UserRows[caseIn.winner])
          /\ \A i, j \in DOMAIN chain : i # j => chain[i] # chain[j]
          /\ \A u \in WalletIDs :
                caseOut.credited[u] =
                   SumSeq([k \in DOMAIN chain |-> IF chain[k] = u THEN amount(k) ELSE 0])
          /\ \A i \in DOMAIN caseOut.records :
                /\ caseOut.records[i].Level \in DOMAIN chain
                /\ caseOut.records[i].AgentID = chain[caseOut.records[i].Level]
                /\ caseOut.records[i].Amount = amount(caseOut.records[i].Level)
          /\ \A k \in DOMAIN chain : SharesBelow(rake, caseIn.arule, k + 1) <= rake
          /\ caseOut.platformShare = rake - SharesBelow(rake, caseIn.arule, Len(chain) + 1)
          /\ caseOut.platformShare >= 0

\* a rake shared by two levels of agents, the second share cut to what was left
C33_Witness ==
    /\ caseOut # <<>>
    /\ Len(caseOut.records) = 2
    /\ caseOut.records[1].AgentID = 5
    /\ caseOut.records[2].Amount > 0
    /\ caseOut.records[2].Amount < RoundPct(caseIn.rake, levelRatio(caseIn.arule, 2))
    /\ caseOut.platformShare = 0

\* ------------------------------------------------------------------------
\* Dealing of a Chexuan hand at tables of 2 to 9 seats
\* ------------------------------------------------------------------------
\* the smallest and the largest number of seats a scene can have
MinSeats == 2
MaxSeats == 9

\* shuffles NewChexuanDeck can return: the template in the order it is declared, and
\* that order reversed
DeckInOrder ==
    <<"RQ", "RQ", "R2", "R2", "R8", "R8", "R4", "R4",
      "B10", "B10", "B4", "B4", "B6", "B6",
      "BJ", "BJ", "R10", "R10", "R6", "R6", "R7", "R7",
      "B5", "B5", "B7", "B7", "B8", "B8", "B9", "B9", "R3", "BK">>
DealDecks == { DeckInOrder, ReverseSeq(DeckInOrder) }

\* tables of every size, with a Chexuan scene and 100 chips on every seat
DealDeployments ==
    { Deployment([s \in 1 .. n |-> 100], 0, Scene(10, 2, FALSE, TRUE, TRUE), 0) :
        n \in MinSeats .. MaxSeats }
\* the users that may fold; the others call or pass when it is their turn
DealFolders == {2, 3}
SeatsInOrder == [i \in 1 .. MaxSeats |-> i]

InitDeal == InitTableOf(DealDeployments)

\* HandleAction for a command the actor accepts, the deck being d when the command
\* starts the hand; equal hands are left in seat order by the sort of the showdown
DealCommand(userID, action, d) ==
    /\ \E r \in { handleActionLocked(World, userID, action, 0,
                                      Chance(d, SeatsInOrder, SeatsInOrder, SeatsInOrder)) } :
         /\ r.err = Nil
         /\ rt' = r.rt
         /\ chans' = r.chans
    /\ UNCHANGED <<tableRow, probes, tableFrame>>

NextDeal ==
    \/ \E u \in 1 .. MaxSeats, d \in DealDecks :
          /\ rt.phase = PhaseWaiting
          /\ DealCommand(u, "ready", d)
    \/ \E u \in 1 .. MaxSeats, a \in {"pass", "call"} :
          /\ rt.phase = PhasePlaying
          /\ DealCommand(u, a, <<>>)
    \/ \E u \in DealFolders :
          /\ rt.phase = PhasePlaying
          /\ DealCommand(u, "fold", <<>>)

SpecDeal == InitDeal /\ [][NextDeal]_vars

\* how often a code is among the cards the seats hold and the cards left in the deck
CopiesOut(t, code) ==
    SumSeq([i \in DOMAIN t.seats |->
              Cardinality({k \in DOMAIN t.seats[i].cards : t.seats[i].cards[k] = code})])
    + Cardinality({k \in DOMAIN t.deck : t.deck[k] = code})
ActiveSeat(s) == s.Status # "folded" /\ s.Status # "eliminated"

\* C34: in a Chexuan hand at a table of 2 to 9 seats every seat holds 2 cards in round
\* 1, dealt in ascending seat order from the top of the deck, every active seat holds
\* 3 cards in round 2 and 4 cards at the showdown, and no code is out more often than
\* the 32-card deck holds it.
C34_FourCardsAtShowdown ==
    /\ (rt.phase = PhasePlaying /\ rt.round = 1) =>
          \A i \in DOMAIN rt.seats :
             Len(rt.seats[i].cards) = 2
             /\ (ActiveSeat(rt.seats[i]) /\ rt.roundActed = {}) =>
                   \E d \in DealDecks :
                      rt.seats[i].cards = <<d[i], d[Len(rt.seats) + i]>>
    /\ (rt.phase = PhasePlaying /\ rt.round = 2) =>
          \A i \in DOMAIN rt.seats : ActiveSeat(rt.seats[i]) => Len(rt.seats[i].cards) = 3
    /\ (rt.phase = PhaseEnded /\ rt.round = 3) =>
          \A i \in DOMAIN rt.seats : ActiveSeat(rt.seats[i]) => Len(rt.seats[i].cards) = 4
    /\ rt.phase # PhaseWaiting =>
          \A code \in DOMAIN chexuanDeckTemplate :
             CopiesOut(rt, code) <= chexuanDeckTemplate[code]

====
